---- MODULE Spec2Model ----
(***************************************************************************)
(* Citation data preparation (01_prepare_data.ipynb) of the model          *)
(* distillation recipe: parse_answer_structure, create_xml_answer,         *)
(* create_bedrock_payload, create_batch_inf_record and the dataframe       *)
(* apply that writes the batch inference records.                          *)
(*                                                                         *)
(* A Python str is a sequence of one-character strings, a list a sequence, *)
(* a dict a function from its keys, None the record None.  A value whose   *)
(* Python type the code inspects carries that type in its field t.  The    *)
(* outcome of a call is Returns(value) or Raises(type, msg).               *)
(***************************************************************************)
EXTENDS Integers, Sequences, FiniteSets, TLC

VARIABLES
    call,        \* the last direct call: function, arguments, outcome
    stdout,      \* the lines print() wrote during the last call or apply step
    df,          \* the dataframe create_batch_inf_record is applied to
    next_row,    \* index of the next row DataFrame.apply hands to the lambda
    records,     \* the records the apply has collected so far
    apply_state, \* "idle", "running", "done" or "raised"
    inference,   \* the session of 03_batch_inference.ipynb: cell, calls, jobs
    training     \* the dataframes of the ground-truth split of the training data

vars ==
    <<call, stdout, df, next_row, records, apply_state, inference, training>>

-----------------------------------------------------------------------------
(* Python values and call outcomes *)

None == [t |-> "None"]

PyStrVal(s) == [t |-> "str", v |-> s]

PyInt(n) == [t |-> "int", v |-> n]

PyList(s) == [t |-> "list", v |-> s]

NdArray(s) == [t |-> "ndarray", v |-> s]

PyDict(f) == [t |-> "dict", v |-> f]

EmptyDict == [k \in {} |-> None]

Returns(v) == [kind |-> "return", value |-> v]

Raises(type, msg) == [kind |-> "raise", type |-> type, msg |-> msg]

\* The exception classes the modelled code can raise; all derive from Exception.
ExceptionClasses ==
    {"KeyError", "ValueError", "TypeError", "AttributeError", "JSONDecodeError"}

-----------------------------------------------------------------------------
(* String literals of the source, character by character *)

TAG_ANSWER ==
    <<"<","a","n","s","w","e","r",">">>

TAG_ANSWER_PART ==
    <<"<","a","n","s","w","e","r","_","p","a","r","t",">">>

TAG_TEXT ==
    <<"<","t","e","x","t",">">>

\* A variant of the closing text tag without its slash
TAG_TEXT_END_UNCLOSED ==
    <<"<","t","e","x","t",">">>

TAG_TEXT_END ==
    <<"<","/","t","e","x","t",">">>

TAG_SOURCES ==
    <<"<","s","o","u","r","c","e","s",">">>

TAG_SOURCE ==
    <<"<","s","o","u","r","c","e",">">>

TAG_SOURCE_END ==
    <<"<","/","s","o","u","r","c","e",">">>

TAG_SOURCES_END ==
    <<"<","/","s","o","u","r","c","e","s",">">>

TAG_ANSWER_PART_END ==
    <<"<","/","a","n","s","w","e","r","_","p","a","r","t",">">>

TAG_ANSWER_END ==
    <<"<","/","a","n","s","w","e","r",">">>

NO_SOURCE ==
    <<"N","o"," ","r","e","l","e","v","a","n","t"," ","s","o","u","r","c",
      "e"," ","f","o","u","n","d">>

NO_ANSWER_HEAD ==
    <<"<","a","n","s","w","e","r","_","p","a","r","t",">","\n","<","t","e",
      "x","t",">","\n">>

NO_ANSWER_TAIL ==
    <<"\n","<","/","t","e","x","t",">","\n","<","/","a","n","s","w","e","r",
      "_","p","a","r","t",">","<","/","a","n","s","w","e","r",">">>

ERROR_HEAD ==
    <<"<","a","n","s","w","e","r",">","\n","<","e","r","r","o","r",">","E",
      "r","r","o","r"," ","g","e","n","e","r","a","t","i","n","g"," ","X",
      "M","L",":"," ">>

ERROR_TAIL ==
    <<"<","/","e","r","r","o","r",">","\n","<","/","a","n","s","w","e","r",
      ">">>

DEFAULT_NO_ANSWER_TEXT ==
    <<"I"," ","c","o","u","l","d"," ","n","o","t"," ","f","i","n","d"," ",
      "a","n"," ","e","x","a","c","t"," ","a","n","s","w","e","r"," ","t",
      "o"," ","t","h","e"," ","q","u","e","s","t","i","o","n",".">>

UNKNOWN_FORMAT ==
    <<"U","n","k","n","o","w","n"," ","a","n","s","w","e","r"," ","f","o",
      "r","m","a","t",":"," ">>

CONTEXT_OPEN ==
    <<"<","c","o","n","t","e","x","t",">">>

CONTEXT_CLOSE_QUESTION_OPEN ==
    <<"<","/","c","o","n","t","e","x","t",">"," ","<","q","u","e","s","t",
      "i","o","n",">">>

QUESTION_CLOSE ==
    <<"<","/","q","u","e","s","t","i","o","n",">">>

UNSUPPORTED ==
    <<"U","n","s","u","p","p","o","r","t","e","d"," ","m","o","d","e","l",
      "_","t","y","p","e",":"," ">>

ERROR_PAYLOAD ==
    <<"E","r","r","o","r"," ","c","r","e","a","t","i","n","g"," ","p","a",
      "y","l","o","a","d"," ","f","o","r"," ","r","o","w",":"," ">>

INVALID_LITERAL ==
    <<"i","n","v","a","l","i","d"," ","l","i","t","e","r","a","l"," ","f",
      "o","r"," ","i","n","t","(",")"," ","w","i","t","h"," ","b","a","s",
      "e"," ","1","0",":"," ">>

EXPECTING_VALUE ==
    <<"E","x","p","e","c","t","i","n","g"," ","v","a","l","u","e",":"," ",
      "l","i","n","e"," ","1"," ","c","o","l","u","m","n"," ","1"," ","(",
      "c","h","a","r"," ","0",")">>

NOT_ITERABLE ==
    <<"a","r","g","u","m","e","n","t"," ","o","f"," ","t","y","p","e"," ",
      "'","N","o","n","e","T","y","p","e","'"," ","i","s"," ","n","o","t",
      " ","i","t","e","r","a","b","l","e">>

NO_TOLIST ==
    <<"'"," ","o","b","j","e","c","t"," ","h","a","s"," ","n","o"," ","a",
      "t","t","r","i","b","u","t","e"," ","'","t","o","l","i","s","t","'">>

JSON_NO_ANSWERS ==
    <<"{","\"","t","e","x","t","\"",":"," ","[","]",","," ","\"","a","n",
      "s","w","e","r","_","s","t","a","r","t","\"",":"," ","[","]","}">>

JSON_ONE ==
    <<"{","\"","t","e","x","t","\"",":"," ","[","\"","b","\"","]",","," ",
      "\"","a","n","s","w","e","r","_","s","t","a","r","t","\"",":"," ","[",
      "0","]","}">>

PARIS ==
    <<"P","a","r","i","s"," ","i","s"," ","t","h","e"," ","c","a","p","i",
      "t","a","l"," ","o","f"," ","F","r","a","n","c","e","."," ","I","t",
      " ","h","a","s"," ","a"," ","p","o","p","u","l","a","t","i","o","n",
      " ","o","f"," ","2"," ","m","i","l","l","i","o","n",".">>

PARIS_SENT ==
    <<"P","a","r","i","s"," ","i","s"," ","t","h","e"," ","c","a","p","i",
      "t","a","l"," ","o","f"," ","F","r","a","n","c","e",".">>

KEY_ANSWERS ==
    <<"a","n","s","w","e","r","s">>

KEY_CONTEXT ==
    <<"c","o","n","t","e","x","t">>

KEY_QUESTION ==
    <<"q","u","e","s","t","i","o","n">>

KEY_ANSWER_START ==
    <<"a","n","s","w","e","r","_","s","t","a","r","t">>

KEY_ID ==
    <<"i","d">>

KEY_TEXT ==
    <<"t","e","x","t">>

INVOKE ==
    <<"i","n","v","o","k","e">>

CONVERSATION ==
    <<"c","o","n","v","e","r","s","a","t","i","o","n">>

SYSTEM_PROMPT ==
    <<"\n","Y","o","u"," ","a","r","e"," ","a"," ","q","u","e","s","t","i",
      "o","n"," ","a","n","s","w","e","r","i","n","g"," ","a","s","s","i",
      "s","t","a","n","t",".">>

NOT_A_SEQUENCE ==
    <<"c","a","n","n","o","t"," ","c","o","n","v","e","r","t"," ","d","i",
      "c","t","i","o","n","a","r","y"," ","u","p","d","a","t","e"," ","s",
      "e","q","u","e","n","c","e"," ","e","l","e","m","e","n","t"," ","#",
      "0"," ","t","o"," ","a"," ","s","e","q","u","e","n","c","e">>

NO_ITEMS ==
    <<"'","l","i","s","t","'"," ","o","b","j","e","c","t"," ","h","a","s",
      " ","n","o"," ","a","t","t","r","i","b","u","t","e"," ","'","i","t",
      "e","m","s","'">>

CHAT ==
    <<"c","h","a","t">>

-----------------------------------------------------------------------------
(* str, int, repr and the string methods the code uses *)

UpperCase ==
    {"A","B","C","D","E","F","G","H","I","J","K","L","M",
     "N","O","P","Q","R","S","T","U","V","W","X","Y","Z"}

LowerCase ==
    {"a","b","c","d","e","f","g","h","i","j","k","l","m",
     "n","o","p","q","r","s","t","u","v","w","x","y","z"}

DigitChars == <<"0","1","2","3","4","5","6","7","8","9">>

Digit == {DigitChars[i] : i \in 1..10}

\* \w of a str pattern, over ASCII
WordChar == UpperCase \cup LowerCase \cup Digit \cup {"_"}

\* \s of a str pattern and the characters str.strip() removes, over ASCII
Whitespace == {" ", "\t", "\n", "\r", "\f"}

Range(f) == {f[x] : x \in DOMAIN f}

SetMin(S) == CHOOSE x \in S : \A y \in S : x <= y

SetMax(S) == CHOOSE x \in S : \A y \in S : x >= y

\* A variant of join that drops the separator
RECURSIVE join_concat(_, _)
join_concat(sep, parts) ==
    IF Len(parts) = 0 THEN <<>>
    ELSE parts[1] \o join_concat(sep, Tail(parts))

\* sep.join(parts)
RECURSIVE join(_, _)
join(sep, parts) ==
    IF Len(parts) = 0 THEN <<>>
    ELSE IF Len(parts) = 1 THEN parts[1]
    ELSE parts[1] \o sep \o join(sep, Tail(parts))

\* s.strip()
strip(s) ==
    LET kept == {i \in 1..Len(s) : s[i] \notin Whitespace}
    IN  IF kept = {} THEN <<>> ELSE SubSeq(s, SetMin(kept), SetMax(kept))

\* s.endswith(suffix)
endswith(s, suffix) ==
    /\ Len(suffix) <= Len(s)
    /\ SubSeq(s, Len(s) - Len(suffix) + 1, Len(s)) = suffix

\* repr(s) of a str without quotes or escapes
repr_str(s) == <<"'">> \o s \o <<"'">>

\* str(n) of an int
RECURSIVE str_nat(_)
str_nat(n) ==
    IF n < 10 THEN <<DigitChars[n + 1]>>
    ELSE str_nat(n \div 10) \o <<DigitChars[(n % 10) + 1]>>

str_int(n) == IF n < 0 THEN <<"-">> \o str_nat(-n) ELSE str_nat(n)

\* str(x) of a str or an int
py_str(x) == IF x.t = "str" THEN x.v ELSE str_int(x.v)

DigitValue(c) == CHOOSE d \in 0..9 : DigitChars[d + 1] = c

RECURSIVE parse_digits(_)
parse_digits(s) ==
    IF Len(s) = 0 THEN 0
    ELSE 10 * parse_digits(SubSeq(s, 1, Len(s) - 1)) + DigitValue(s[Len(s)])

\* int(x) of an int or of a str: a str of decimal digits converts, any other
\* str of the model's alphabet is an invalid literal
py_int(x) ==
    IF x.t = "int" THEN Returns(x.v)
    ELSE IF Len(x.v) > 0 /\ \A i \in 1..Len(x.v) : x.v[i] \in Digit
         THEN Returns(parse_digits(x.v))
         ELSE Raises("ValueError", INVALID_LITERAL \o repr_str(x.v))

\* repr of a list of ints
RECURSIVE repr_items(_)
repr_items(items) ==
    IF Len(items) = 0 THEN <<>>
    ELSE IF Len(items) = 1 THEN str_int(items[1].v)
    ELSE str_int(items[1].v) \o <<",", " ">> \o repr_items(Tail(items))

\* repr(d) of a dict that has no 'text' key: the empty dict, or a dict that
\* holds only a list of ints under 'answer_start'
repr_dict(d) ==
    IF DOMAIN d = {} THEN <<"{", "}">>
    ELSE <<"{">> \o repr_str(KEY_ANSWER_START) \o <<":", " ", "[">>
         \o repr_items(d["answer_start"].v) \o <<"]", "}">>

\* str(KeyError(key))
KeyChars(key) ==
    CASE key = "answers" -> KEY_ANSWERS
      [] key = "context" -> KEY_CONTEXT
      [] key = "question" -> KEY_QUESTION
      [] key = "answer_start" -> KEY_ANSWER_START
      [] key = "text" -> KEY_TEXT
      [] key = "id" -> KEY_ID

KeyError(key) == Raises("KeyError", repr_str(KeyChars(key)))

\* json.loads(s) on the JSON texts of the model; a text that starts no JSON
\* value fails at its first character
json_loads(s) ==
    CASE s = JSON_NO_ANSWERS ->
           Returns(PyDict([text |-> PyList(<<>>), answer_start |-> PyList(<<>>)]))
      [] s = JSON_ONE ->
           Returns(PyDict([text |-> PyList(<<PyStrVal(<<"b">>)>>),
                           answer_start |-> PyList(<<PyInt(0)>>)]))
      [] s = <<"{", "}">> -> Returns(PyDict(EmptyDict))
      [] OTHER -> Raises("JSONDecodeError", EXPECTING_VALUE)

-----------------------------------------------------------------------------
(* Sentence segmenter: re.split(r'(?<!\w\.\w.)(?<![A-Z][a-z]\.)(?<=\.|\?|\!)\s', context) *)

\* A variant of the pattern without the lookbehind for the terminal mark
IsSplitPoint_any_whitespace(context, i) ==
    /\ context[i] \in Whitespace
    /\ ~ (/\ i >= 5
          /\ context[i - 4] \in WordChar
          /\ context[i - 3] = "."
          /\ context[i - 2] \in WordChar
          /\ context[i - 1] # "\n")
    /\ ~ (/\ i >= 4
          /\ context[i - 3] \in UpperCase
          /\ context[i - 2] \in LowerCase
          /\ context[i - 1] = ".")

\* A variant of the pattern without the lookbehind (?<![A-Z][a-z]\.)
IsSplitPoint_no_titles(context, i) ==
    /\ context[i] \in Whitespace
    /\ i >= 2
    /\ context[i - 1] \in {".", "?", "!"}
    /\ ~ (/\ i >= 5
          /\ context[i - 4] \in WordChar
          /\ context[i - 3] = "."
          /\ context[i - 2] \in WordChar
          /\ context[i - 1] # "\n")

\* The pattern matches the single character context[i]
IsSplitPoint(context, i) ==
    /\ context[i] \in Whitespace
    /\ i >= 2
    /\ context[i - 1] \in {".", "?", "!"}
    /\ ~ (/\ i >= 5
          /\ context[i - 4] \in WordChar
          /\ context[i - 3] = "."
          /\ context[i - 2] \in WordChar
          /\ context[i - 1] # "\n")
    /\ ~ (/\ i >= 4
          /\ context[i - 3] \in UpperCase
          /\ context[i - 2] \in LowerCase
          /\ context[i - 1] = ".")

\* A variant of the split that leaves the matched character in the next piece
RECURSIVE re_split_from_keep_separator(_, _, _)
re_split_from_keep_separator(context, i, piece_start) ==
    IF i > Len(context) THEN <<SubSeq(context, piece_start, Len(context))>>
    ELSE IF IsSplitPoint(context, i)
         THEN <<SubSeq(context, piece_start, i - 1)>>
              \o re_split_from_keep_separator(context, i + 1, i)
         ELSE re_split_from_keep_separator(context, i + 1, piece_start)

\* A variant of the split that drops the whole run of whitespace at a match
RECURSIVE re_split_from_whitespace_run(_, _, _)
re_split_from_whitespace_run(context, i, piece_start) ==
    IF i > Len(context) THEN <<SubSeq(context, piece_start, Len(context))>>
    ELSE IF IsSplitPoint(context, i)
         THEN LET rest == {j \in i..Len(context) : context[j] \notin Whitespace}
                  resume == IF rest = {} THEN Len(context) + 1 ELSE SetMin(rest)
              IN  <<SubSeq(context, piece_start, i - 1)>>
                  \o re_split_from_whitespace_run(context, resume, resume)
         ELSE re_split_from_whitespace_run(context, i + 1, piece_start)

\* The pieces between the matches, the matched characters dropped
RECURSIVE re_split_from(_, _, _)
re_split_from(context, i, piece_start) ==
    IF i > Len(context) THEN <<SubSeq(context, piece_start, Len(context))>>
    ELSE IF IsSplitPoint(context, i)
         THEN <<SubSeq(context, piece_start, i - 1)>>
              \o re_split_from(context, i + 1, i + 1)
         ELSE re_split_from(context, i + 1, piece_start)

re_split(context) == re_split_from(context, 1, 1)

-----------------------------------------------------------------------------
(* Span locator: the loop over sentences in create_xml_answer *)

\* A variant of the loop that counts no separator after a sentence
RECURSIVE locate_from_no_separator(_, _, _, _)
locate_from_no_separator(sentences, k, char_count, start) ==
    IF k > Len(sentences) THEN NO_SOURCE
    ELSE LET sentence_len == Len(sentences[k])
         IN  IF char_count <= start /\ start < char_count + sentence_len
             THEN strip(sentences[k])
             ELSE locate_from_no_separator(sentences, k + 1,
                                           char_count + sentence_len, start)

RECURSIVE locate_from(_, _, _, _)
locate_from(sentences, k, char_count, start) ==
    IF k > Len(sentences) THEN NO_SOURCE
    ELSE LET sentence_len == Len(sentences[k]) + 1
         IN  IF char_count <= start /\ start < char_count + sentence_len
             THEN strip(sentences[k])
             ELSE locate_from(sentences, k + 1, char_count + sentence_len, start)

\* A variant that falls back to the last sentence instead of the sentinel
source_sentence_clamped(sentences, start) ==
    LET found == locate_from(sentences, 1, 0, start)
    IN  IF found = NO_SOURCE /\ Len(sentences) > 0
        THEN strip(sentences[Len(sentences)])
        ELSE found

source_sentence(sentences, start) == locate_from(sentences, 1, 0, start)

-----------------------------------------------------------------------------
(* parse_answer_structure *)

parse_answer_structure(answers_dict) ==
    IF answers_dict.t = "None" THEN Raises("TypeError", NOT_ITERABLE)
    ELSE LET d == answers_dict.v
         IN  IF "text" \in DOMAIN d /\ d["text"].t = "ndarray"
             THEN IF "answer_start" \notin DOMAIN d THEN KeyError("answer_start")
                  ELSE IF d["answer_start"].t # "ndarray"
                       THEN Raises("AttributeError",
                                   <<"'">> \o (IF d["answer_start"].t = "list"
                                               THEN <<"l","i","s","t">>
                                               ELSE <<"i","n","t">>) \o NO_TOLIST)
                       ELSE Returns([texts |-> d["text"].v,
                                     starts |-> d["answer_start"].v])
             ELSE IF "text" \in DOMAIN d
                  THEN IF "answer_start" \notin DOMAIN d
                       THEN KeyError("answer_start")
                       ELSE Returns(
                              [texts |-> IF d["text"].t = "list"
                                         THEN d["text"].v ELSE <<d["text"]>>,
                               starts |-> IF d["answer_start"].t = "list"
                                          THEN d["answer_start"].v
                                          ELSE <<d["answer_start"]>>])
                  ELSE Raises("ValueError", UNKNOWN_FORMAT \o repr_dict(d))

-----------------------------------------------------------------------------
(* create_xml_answer *)

\* A variant of the loop that skips an occurrence whose text was seen before
RECURSIVE answer_parts_dedup(_, _, _, _)
answer_parts_dedup(texts, starts, sentences, i) ==
    IF i > Len(texts) \/ i > Len(starts) THEN Returns(<<>>)
    ELSE LET start == py_int(starts[i])
             rest == answer_parts_dedup(texts, starts, sentences, i + 1)
         IN  IF start.kind = "raise" THEN start
             ELSE IF rest.kind = "raise" THEN rest
             ELSE IF \E j \in 1..(i - 1) : texts[j] = texts[i] THEN rest
             ELSE Returns(
                    <<TAG_ANSWER_PART,
                      TAG_TEXT,
                      py_str(texts[i]),
                      TAG_TEXT_END,
                      TAG_SOURCES,
                      TAG_SOURCE \o source_sentence(sentences, start.value)
                        \o TAG_SOURCE_END,
                      TAG_SOURCES_END,
                      TAG_ANSWER_PART_END>> \o rest.value)

\* The for loop over zip(texts, starts), from pair i on: the parts it appends,
\* or the exception int(start) raises
RECURSIVE answer_parts(_, _, _, _)
answer_parts(texts, starts, sentences, i) ==
    IF i > Len(texts) \/ i > Len(starts) THEN Returns(<<>>)
    ELSE LET start == py_int(starts[i])
         IN  IF start.kind = "raise" THEN start
             ELSE LET rest == answer_parts(texts, starts, sentences, i + 1)
                  IN  IF rest.kind = "raise" THEN rest
                      ELSE Returns(
                             <<TAG_ANSWER_PART,
                               TAG_TEXT,
                               py_str(texts[i]),
                               TAG_TEXT_END,
                               TAG_SOURCES,
                               TAG_SOURCE
                                 \o source_sentence(sentences, start.value)
                                 \o TAG_SOURCE_END,
                               TAG_SOURCES_END,
                               TAG_ANSWER_PART_END>> \o rest.value)

\* A variant that ignores the configured message for the default one
no_answer_part_default(no_answer_text) ==
    NO_ANSWER_HEAD \o DEFAULT_NO_ANSWER_TEXT \o NO_ANSWER_TAIL

\* f"<answer_part>\\n<text>\\n{no_answer_text}\\n</text>\\n</answer_part></answer>"
no_answer_part(no_answer_text) ==
    NO_ANSWER_HEAD \o no_answer_text \o NO_ANSWER_TAIL

\* The body of the try block
xml_answer_try(row, no_answer_text) ==
    IF "answers" \notin DOMAIN row THEN KeyError("answers")
    ELSE LET loaded == IF row["answers"].t = "str"
                       THEN json_loads(row["answers"].v)
                       ELSE Returns(row["answers"])
         IN  IF loaded.kind = "raise" THEN loaded
             ELSE LET parsed == parse_answer_structure(loaded.value)
                  IN  IF parsed.kind = "raise" THEN parsed
                      ELSE IF "context" \notin DOMAIN row THEN KeyError("context")
                      ELSE LET texts == parsed.value.texts
                               starts == parsed.value.starts
                               sentences == re_split(row["context"])
                               parts == answer_parts(texts, starts, sentences, 1)
                           IN  IF Len(texts) > 0
                               THEN IF parts.kind = "raise" THEN parts
                                    ELSE Returns(join(<<"\n">>,
                                           <<TAG_ANSWER>> \o parts.value
                                             \o <<TAG_ANSWER_END>>))
                               ELSE Returns(join(<<"\n">>,
                                      <<TAG_ANSWER,
                                        no_answer_part(no_answer_text)>>))

\* A variant of the except clause that catches ValueError alone
xml_answer_except_value_error(outcome) ==
    IF outcome.kind = "raise" /\ outcome.type = "ValueError"
    THEN Returns(ERROR_HEAD \o outcome.msg \o ERROR_TAIL)
    ELSE outcome

\* A variant of the except clause that returns an empty string
xml_answer_except_empty(outcome) ==
    IF outcome.kind = "raise" /\ outcome.type \in ExceptionClasses
    THEN Returns(<<>>)
    ELSE outcome

\* except Exception as e: every class the body raises derives from Exception
xml_answer_except(outcome) ==
    IF outcome.kind = "raise" /\ outcome.type \in ExceptionClasses
    THEN Returns(ERROR_HEAD \o outcome.msg \o ERROR_TAIL)
    ELSE outcome

create_xml_answer(row, no_answer_text) ==
    xml_answer_except(xml_answer_try(row, no_answer_text))

-----------------------------------------------------------------------------
(* create_bedrock_payload *)

\* bool(x) of None, a str, a dict or a list
truthy(x) ==
    CASE x.t = "None" -> FALSE
      [] x.t = "str" -> Len(x.v) > 0
      [] x.t = "dict" -> DOMAIN x.v # {}
      [] x.t = "list" -> Len(x.v) > 0

\* [{"text": system_prompt}] if system_prompt else []
system_block(system_prompt) ==
    IF truthy(system_prompt) THEN <<[text |-> system_prompt.v]>> ELSE <<>>

message(role, text) == [role |-> role, content |-> <<[text |-> text]>>]

\* A variant of the prompt with a newline between the two tags
user_prompt_newline(context, question) ==
    CONTEXT_OPEN \o context \o <<"<","/","c","o","n","t","e","x","t",">","\n">>
      \o <<"<","q","u","e","s","t","i","o","n",">">> \o question
      \o QUESTION_CLOSE

\* f"""<context>{context}</context> <question>{question}</question>"""
user_prompt(context, question) ==
    CONTEXT_OPEN \o context \o CONTEXT_CLOSE_QUESTION_OPEN \o question
      \o QUESTION_CLOSE

\* A variant of the generation parameters without the stop sequence
inferenceConfig_no_stop ==
    [temperature |-> [num |-> 1, den |-> 10],
     topP |-> [num |-> 9, den |-> 10],
     topK |-> 50,
     stopSequences |-> <<>>]

\* The generation parameters of the invoke payload; .1 and .9 as fractions
inferenceConfig ==
    [temperature |-> [num |-> 1, den |-> 10],
     topP |-> [num |-> 9, den |-> 10],
     topK |-> 50,
     stopSequences |-> <<TAG_ANSWER_END>>]

\* payload.update(additional_params) with a dict
dict_update(payload, params) ==
    [k \in DOMAIN payload \cup DOMAIN params |->
        IF k \in DOMAIN params THEN params[k] ELSE payload[k]]

\* A variant of the loop that assigns every key
add_missing_keys_overwrite(payload, params) ==
    [k \in DOMAIN payload \cup DOMAIN params |->
        IF k \in DOMAIN params THEN params[k] ELSE payload[k]]

\* for key, value in additional_params.items():
\*     if key not in payload: payload[key] = value
add_missing_keys(payload, params) ==
    [k \in DOMAIN payload \cup DOMAIN params |->
        IF k \in DOMAIN payload THEN payload[k] ELSE params[k]]

\* A variant that inserts the assistant turn at the front of the list
with_assistant_turn_first(messages, include_answer, assistant_response) ==
    IF include_answer /\ truthy(assistant_response)
    THEN <<message("assistant", assistant_response.v)>> \o messages
    ELSE messages

\* payload["messages"].append(...) when include_answer and assistant_response
with_assistant_turn(messages, include_answer, assistant_response) ==
    IF include_answer /\ truthy(assistant_response)
    THEN Append(messages, message("assistant", assistant_response.v))
    ELSE messages

\* The body of the try block
bedrock_payload_try(row, model_type, system_prompt, include_answer, additional_params) ==
    IF "context" \notin DOMAIN row THEN KeyError("context")
    ELSE IF "question" \notin DOMAIN row THEN KeyError("question")
    ELSE LET prompt == user_prompt(row["context"], row["question"])
             xml == IF include_answer
                    THEN create_xml_answer(row, DEFAULT_NO_ANSWER_TEXT)
                    ELSE Returns(<<>>)
             assistant_response ==
                 IF include_answer THEN PyStrVal(xml.value) ELSE None
             messages ==
                 with_assistant_turn(<<message("user", prompt)>>,
                                     include_answer, assistant_response)
         IN  IF xml.kind = "raise" THEN xml
             ELSE IF model_type = CONVERSATION
             THEN LET payload ==
                          [schemaVersion |-> "bedrock-conversation-2024",
                           system |-> system_block(system_prompt),
                           messages |-> messages]
                  IN  IF ~ truthy(additional_params) THEN Returns(payload)
                      ELSE IF additional_params.t # "dict"
                      THEN Raises("AttributeError", NO_ITEMS)
                      ELSE Returns(add_missing_keys(payload, additional_params.v))
             ELSE IF model_type = INVOKE
             THEN LET payload ==
                          [system |-> system_block(system_prompt),
                           messages |-> messages,
                           inferenceConfig |-> inferenceConfig]
                  IN  IF ~ truthy(additional_params) THEN Returns(payload)
                      ELSE IF additional_params.t # "dict"
                      THEN Raises("TypeError", NOT_A_SEQUENCE)
                      ELSE Returns(dict_update(payload, additional_params.v))
             ELSE Raises("ValueError", UNSUPPORTED \o model_type)

\* A variant of the except clause that prints and raises the exception again
bedrock_payload_except_reraise(outcome) == outcome

\* except Exception as e: print(...); return None
bedrock_payload_except(outcome) ==
    IF outcome.kind = "raise" /\ outcome.type \in ExceptionClasses
    THEN Returns(None)
    ELSE outcome

create_bedrock_payload(row, model_type, system_prompt, include_answer, additional_params) ==
    bedrock_payload_except(
        bedrock_payload_try(row, model_type, system_prompt, include_answer,
                            additional_params))

\* What the call prints: the except clause's line, if it ran
bedrock_payload_stdout(row, model_type, system_prompt, include_answer, additional_params) ==
    LET outcome == bedrock_payload_try(row, model_type, system_prompt,
                                       include_answer, additional_params)
    IN  IF outcome.kind = "raise" /\ outcome.type \in ExceptionClasses
        THEN <<ERROR_PAYLOAD \o outcome.msg>>
        ELSE <<>>

-----------------------------------------------------------------------------
(* create_batch_inf_record *)

\* A variant that rejects a row whose payload is absent
create_batch_inf_record_strict(row, system_prompt, include_answer) ==
    LET conversation == create_bedrock_payload(row, INVOKE, system_prompt,
                                               include_answer, PyDict(EmptyDict))
    IN  IF conversation.kind = "raise" THEN conversation
        ELSE IF conversation.value = None
        THEN Raises("ValueError", <<"n","o"," ","p","a","y","l","o","a","d">>)
        ELSE IF "id" \notin DOMAIN row THEN KeyError("id")
        ELSE Returns([recordId |-> row["id"],
                      modelInput |-> conversation.value])

create_batch_inf_record(row, system_prompt, include_answer) ==
    LET conversation == create_bedrock_payload(row, INVOKE, system_prompt,
                                               include_answer, PyDict(EmptyDict))
    IN  IF conversation.kind = "raise" THEN conversation
        ELSE IF "id" \notin DOMAIN row THEN KeyError("id")
        ELSE Returns([recordId |-> row["id"],
                      modelInput |-> conversation.value])

batch_inf_record_stdout(row, system_prompt, include_answer) ==
    bedrock_payload_stdout(row, INVOKE, system_prompt, include_answer,
                           PyDict(EmptyDict))

-----------------------------------------------------------------------------
(* Inputs *)

MaxPassageLen == 4

MaxOffset == 6

MaxRows == 2

Alphabet == {"A", "b", ".", " "}

ShortPassages == UNION {[1..n -> Alphabet] : n \in 0..MaxPassageLen}

MR_PASSAGE == <<"M","r","."," ","A","."," ","b",".">>

NEWLINE_PASSAGE == <<"b",".","\n"," ","A","?">>

ExamplePassages == {PARIS, MR_PASSAGE, NEWLINE_PASSAGE}

TEXT_A == PyStrVal(<<"A">>)

TEXT_B == PyStrVal(<<"b">>)

TEXT_PARIS == PyStrVal(<<"P","a","r","i","s">>)

\* The answers column as the dataset holds it: parallel numpy arrays
ArrayAnswers(texts, starts) ==
    PyDict([text |-> NdArray(texts), answer_start |-> NdArray(starts)])

ListAnswers(texts, starts) ==
    PyDict([text |-> PyList(texts), answer_start |-> PyList(starts)])

ExampleOffsets == {0, 3, 70}

\* Well-formed answers: as many offsets as texts, every offset an int
WellFormedAnswers ==
    {ArrayAnswers(<<>>, <<>>), ListAnswers(<<>>, <<>>),
     ArrayAnswers(<<TEXT_PARIS>>, <<PyInt(0)>>),
     ListAnswers(<<TEXT_PARIS>>, <<PyInt(0)>>),
     PyDict([text |-> TEXT_B, answer_start |-> PyInt(0)]),
     PyStrVal(JSON_NO_ANSWERS), PyStrVal(JSON_ONE)}
    \cup {ArrayAnswers(<<t1, t2>>, <<PyInt(o1), PyInt(o2)>>) :
            t1 \in {TEXT_A, TEXT_B}, t2 \in {TEXT_A, TEXT_B},
            o1 \in ExampleOffsets, o2 \in ExampleOffsets}

\* Malformed answers: not JSON, no text key, no answer_start key, None, an
\* offset that is no int, fewer offsets than texts, an array next to a list
MalformedAnswers ==
    {PyStrVal(<<"x">>), PyStrVal(<<"{", "}">>), PyDict(EmptyDict),
     PyDict([answer_start |-> PyList(<<PyInt(0)>>)]),
     PyDict([text |-> PyList(<<TEXT_B>>)]),
     PyDict([text |-> NdArray(<<TEXT_B>>)]),
     PyDict([text |-> NdArray(<<TEXT_B>>), answer_start |-> PyList(<<PyInt(0)>>)]),
     None,
     ListAnswers(<<TEXT_B>>, <<PyStrVal(<<"x">>)>>),
     ListAnswers(<<TEXT_A, TEXT_B>>, <<PyInt(0), PyStrVal(<<"x">>)>>),
     ListAnswers(<<TEXT_B>>, <<PyStrVal(<<"1", "2">>)>>),
     ListAnswers(<<TEXT_A, TEXT_B>>, <<PyInt(0)>>),
     ListAnswers(<<PyInt(7)>>, <<PyInt(0)>>)}

QUESTION == <<"Q","?">>

Ids == {<<"r","1">>, <<"r","2">>}

Row(id, context, answers) ==
    [id |-> id, context |-> context, question |-> QUESTION, answers |-> answers]

\* The row without the columns in dropped
Without(row, dropped) == [k \in DOMAIN row \ dropped |-> row[k]]

\* Every short passage with one answer at every offset
ShortRows ==
    {Row(<<"r","1">>, p, ArrayAnswers(<<TEXT_B>>, <<PyInt(o)>>)) :
        p \in ShortPassages, o \in 0..MaxOffset}

ExampleRows ==
    {Row(<<"r","1">>, p, a) :
        p \in ExamplePassages, a \in WellFormedAnswers \cup MalformedAnswers}

IncompleteRows ==
    {Without(Row(<<"r","1">>, MR_PASSAGE, a), dropped) :
        a \in {ArrayAnswers(<<>>, <<>>), ArrayAnswers(<<TEXT_B>>, <<PyInt(7)>>)},
        dropped \in {{"answers"}, {"context"}, {"question"}, {"id"},
                     {"answers", "context"}, {"context", "question"}}}

NoAnswerTexts == {DEFAULT_NO_ANSWER_TEXT, <<"n", "o">>, <<>>}

XmlCalls ==
    ((ShortRows \cup ExampleRows \cup IncompleteRows) \X {DEFAULT_NO_ANSWER_TEXT})
    \cup ({Row(<<"r","1">>, p, a) :
              p \in {MR_PASSAGE, <<>>},
              a \in {ArrayAnswers(<<>>, <<>>), PyStrVal(JSON_NO_ANSWERS),
                     ListAnswers(<<>>, <<>>), PyDict(EmptyDict)}}
          \X NoAnswerTexts)

PayloadRows ==
    {Row(<<"r","1">>, p, a) :
        p \in {PARIS, <<"A", ".", " ", " ", "b">>},
        a \in {ArrayAnswers(<<>>, <<>>), ArrayAnswers(<<TEXT_B>>, <<PyInt(4)>>),
               ArrayAnswers(<<TEXT_A, TEXT_B>>, <<PyInt(0), PyInt(70)>>),
               PyDict(EmptyDict)}}
    \cup IncompleteRows

ModelTypes == {CONVERSATION, INVOKE, CHAT, <<>>, <<"I","n","v","o","k","e">>}

SystemPrompts == {None, PyStrVal(<<>>), PyStrVal(SYSTEM_PROMPT)}

AdditionalParams ==
    {None, PyDict(EmptyDict),
     PyDict([maxTokens |-> 100]),
     PyDict([messages |-> <<>>]),
     PyDict([inferenceConfig |-> [temperature |-> [num |-> 1, den |-> 1]]]),
     PyDict([schemaVersion |-> "custom", system |-> <<>>, maxTokens |-> 100]),
     PyList(<<PyInt(1)>>)}

\* The rows of a dataframe share its columns
BatchRows ==
    {Row(id, <<"A", ".", " ", " ", "b">>, a) :
        id \in Ids,
        a \in {ArrayAnswers(<<>>, <<>>), ArrayAnswers(<<TEXT_B>>, <<PyInt(4)>>),
               PyDict(EmptyDict)}}

DroppedColumns == {{}, {"context"}, {"answers"}, {"id"}}

Datasets ==
    UNION {[1..n -> {Without(r, dropped) : r \in BatchRows}] :
             n \in 0..MaxRows, dropped \in DroppedColumns}

-----------------------------------------------------------------------------
(* Direct calls of the functions: the arguments are drawn, then the call runs *)

Pending == [kind |-> "pending"]

\* A notebook none of whose cells has run
NotStarted == [cell |-> "none"]

XmlAnswerCalls ==
    {[fn |-> "create_xml_answer", row |-> c[1], no_answer_text |-> c[2],
      outcome |-> Pending] : c \in XmlCalls}

BedrockPayloadCalls ==
    {[fn |-> "create_bedrock_payload", row |-> row, model_type |-> model_type,
      system_prompt |-> system_prompt, include_answer |-> include_answer,
      additional_params |-> additional_params, outcome |-> Pending] :
        row \in PayloadRows, model_type \in ModelTypes,
        system_prompt \in SystemPrompts, include_answer \in BOOLEAN,
        additional_params \in AdditionalParams}

Init ==
    /\ call \in XmlAnswerCalls \cup BedrockPayloadCalls
    /\ stdout = <<>>
    /\ df = <<>>
    /\ next_row = 1
    /\ records = <<>>
    /\ apply_state = "idle"
    /\ inference = NotStarted
    /\ training = NotStarted

CallCreateXmlAnswer ==
    /\ call.fn = "create_xml_answer"
    /\ call.outcome = Pending
    /\ call' = [call EXCEPT
                  !.outcome = create_xml_answer(call.row, call.no_answer_text)]
    /\ UNCHANGED <<stdout, df, next_row, records, apply_state, inference, training>>

CallCreateBedrockPayload ==
    /\ call.fn = "create_bedrock_payload"
    /\ call.outcome = Pending
    /\ call' = [call EXCEPT
                  !.outcome = create_bedrock_payload(call.row, call.model_type,
                                  call.system_prompt, call.include_answer,
                                  call.additional_params)]
    /\ stdout' = bedrock_payload_stdout(call.row, call.model_type,
                     call.system_prompt, call.include_answer,
                     call.additional_params)
    /\ UNCHANGED <<df, next_row, records, apply_state, inference, training>>

Next == CallCreateXmlAnswer \/ CallCreateBedrockPayload

Spec == Init /\ [][Next]_vars

-----------------------------------------------------------------------------
(* sentences = re.split(..., context), the first statement create_xml_answer
   runs on a well-formed row *)

MaxSegmentLen == 5

SegmentAlphabet == {"A", "b", ".", "?", " "}

SegmentPassages == UNION {[1..n -> SegmentAlphabet] : n \in 0..MaxSegmentLen}

SegmentExamples ==
    {PARIS, MR_PASSAGE, NEWLINE_PASSAGE,
     <<"e",".","g","."," ","b",".">>,
     <<"A","b","!","\n","1",".","2","."," ","b","_",".","\t","A">>,
     <<"J","."," ","R","."," ","b","b","."," ","A","b","?","\t">>,
     <<"A"," ","b","\n","A">>}

SegmenterCalls ==
    {[fn |-> "re.split", context |-> context, outcome |-> Pending] :
        context \in SegmentPassages \cup SegmentExamples}

InitSegment ==
    /\ call \in SegmenterCalls
    /\ stdout = <<>>
    /\ df = <<>>
    /\ next_row = 1
    /\ records = <<>>
    /\ apply_state = "idle"
    /\ inference = NotStarted
    /\ training = NotStarted

CallReSplit ==
    /\ call.fn = "re.split"
    /\ call.outcome = Pending
    /\ call' = [call EXCEPT !.outcome = Returns(re_split(call.context))]
    /\ UNCHANGED <<stdout, df, next_row, records, apply_state, inference, training>>

NextSegment == CallReSplit

SpecSegment == InitSegment /\ [][NextSegment]_vars

-----------------------------------------------------------------------------
(* batch_inf_df.apply(lambda row: create_batch_inf_record(...), axis=1) *)

InitBatch ==
    /\ df \in Datasets
    /\ call \in {[fn |-> "apply", system_prompt |-> PyStrVal(SYSTEM_PROMPT),
                  include_answer |-> b] : b \in BOOLEAN}
    /\ stdout = <<>>
    /\ next_row = 1
    /\ records = <<>>
    /\ apply_state = "running"
    /\ inference = NotStarted
    /\ training = NotStarted

\* The lambda runs on the next row; an exception it raises ends the apply
\* and no Series is built
ApplyRow ==
    /\ apply_state = "running"
    /\ next_row <= Len(df)
    /\ LET outcome == create_batch_inf_record(df[next_row], call.system_prompt,
                                              call.include_answer)
       IN  IF outcome.kind = "return"
           THEN /\ records' = Append(records, outcome.value)
                /\ next_row' = next_row + 1
                /\ apply_state' = "running"
           ELSE /\ records' = <<>>
                /\ next_row' = next_row
                /\ apply_state' = "raised"
    /\ stdout' = stdout \o batch_inf_record_stdout(df[next_row],
                             call.system_prompt, call.include_answer)
    /\ UNCHANGED <<call, df, inference, training>>

\* After the last row the Series holds the records and to_json writes one
\* line for each
ApplyDone ==
    /\ apply_state = "running"
    /\ next_row > Len(df)
    /\ apply_state' = "done"
    /\ UNCHANGED <<call, stdout, df, next_row, records, inference, training>>

NextBatch == ApplyRow \/ ApplyDone

SpecBatch == InitBatch /\ [][NextBatch]_vars

-----------------------------------------------------------------------------
(* 03_batch_inference.ipynb: upload the input file, submit one job for each
   model, check the jobs, download their results.  boto3 and the imported
   create_s3_bucket are the outside world: each call succeeds or raises. *)

MODEL_PREMIER ==
    <<"u","s",".","a","m","a","z","o","n",".","n","o","v","a","-","p","r",
      "e","m","i","e","r","-","v","1",":","0">>

MODEL_LITE ==
    <<"a","m","a","z","o","n",".","n","o","v","a","-","l","i","t","e","-",
      "v","1",":","0">>

MODEL_MICRO ==
    <<"a","m","a","z","o","n",".","n","o","v","a","-","m","i","c","r","o",
      "-","v","1",":","0">>

BUCKET_NAME ==
    <<"<","B","U","C","K","E","T","_","N","A","M","E",">">>

batch_inference_file ==
    <<"b","a","t","c","h","_","i","n","f","_","d","a","t","a",".","j","s",
      "o","n","l">>

batch_inference_output_prefix ==
    <<"c","i","t","a","t","i","o","n","s","_","d","i","s","t","i","l","l",
      "a","t","i","o","n","/","b","a","t","c","h","_","i","n","f","e","r",
      "e","n","c","e","/","o","u","t","p","u","t","s">>

TARGET_DIRECTORY ==
    <<"b","a","t","c","h","_","i","n","f","e","r","e","n","c","e","_","r",
      "e","s","u","l","t","s","/">>

JOB_ARN_HEAD ==
    <<"a","r","n",":","a","w","s",":","b","e","d","r","o","c","k",":","u",
      "s","-","e","a","s","t","-","1",":","1","1","1","1","2","2","2","2",
      "3","3","3","3",":","m","o","d","e","l","-","i","n","v","o","c","a",
      "t","i","o","n","-","j","o","b","/">>

MODEL_ARN_HEAD ==
    <<"a","r","n",":","a","w","s",":","b","e","d","r","o","c","k",":","u",
      "s","-","e","a","s","t","-","1",":",":","f","o","u","n","d","a","t",
      "i","o","n","-","m","o","d","e","l","/">>

JSONL_OUT ==
    <<"j","s","o","n","l",".","o","u","t">>

MANIFEST_JSON_OUT ==
    <<"m","a","n","i","f","e","s","t",".","j","s","o","n",".","o","u","t">>

DOT_OUT ==
    <<".","o","u","t">>

RESULT_NAME ==
    <<"b","a","t","c","h","_","i","n","f","_","d","a","t","a",".","j","s",
      "o","n","l",".","o","u","t">>

MANIFEST_NAME ==
    <<"m","a","n","i","f","e","s","t",".","j","s","o","n",".","o","u","t">>

NESTED_RESULT_NAME ==
    <<"r","e","t","r","y","/","b","a","t","c","h","_","i","n","f","_","d",
      "a","t","a",".","j","s","o","n","l",".","o","u","t">>

JSON_RESULT_NAME ==
    <<"b","a","t","c","h","_","i","n","f","_","d","a","t","a",".","j","s",
      "o","n",".","o","u","t">>

INPUT_COPY_NAME ==
    <<"b","a","t","c","h","_","i","n","f","_","d","a","t","a",".","j","s",
      "o","n","l">>

models == <<MODEL_PREMIER, MODEL_LITE, MODEL_MICRO>>

\* s.split(sep)[-1]
split_last(s, sep) ==
    LET found == {i \in 1..Len(s) : s[i] = sep}
    IN  IF found = {} THEN s ELSE SubSeq(s, SetMax(found) + 1, Len(s))

\* s.split(sep)[0]
split_first(s, sep) ==
    LET found == {i \in 1..Len(s) : s[i] = sep}
    IN  IF found = {} THEN s ELSE SubSeq(s, 1, SetMin(found) - 1)

\* s.replace(old, new) for single characters
replace(s, old, new) == [i \in 1..Len(s) |-> IF s[i] = old THEN new ELSE s[i]]

\* os.path.basename(key)
basename(key) == split_last(key, "/")

OK == "none"

\* What a failing call raises: botocore's ClientError or an exception that
\* is not a ClientError
ErrorTypes == {"ClientError", "EndpointConnectionError"}

CallOutcomes == {OK} \cup ErrorTypes

Called(fn, api, target, error) ==
    [fn |-> fn, api |-> api, target |-> target, error |-> error]

Line(text, about) == [text |-> text, about |-> about]

\* The ARN the service gives the n-th job
JobArn(n) == JOB_ARN_HEAD \o <<"j">> \o str_nat(n)

\* The record the service keeps of a job
JobDetails(jobArn, model_id) ==
    [jobArn |-> jobArn,
     modelId |-> MODEL_ARN_HEAD \o model_id,
     s3Uri |-> batch_inference_output_prefix \o <<"/">>
                 \o split_first(split_last(model_id, "/"), ":") \o <<"/">>]

JobOf(job_id) == CHOOSE job \in Range(inference.jobs) : job.jobArn = job_id

\* A page of list_objects_v2 without and with 'Contents'
NoContents == [KeyCount |-> 0]

Page(names) == [KeyCount |-> Len(names), Contents |-> names]

\* What the jobs leave under their output locations, page by page
ResultListings ==
    {<<NoContents>>,
     <<Page(<<RESULT_NAME, MANIFEST_NAME>>)>>,
     <<Page(<<JSON_RESULT_NAME>>)>>,
     <<Page(<<MANIFEST_NAME, NESTED_RESULT_NAME>>), NoContents,
       Page(<<JSON_RESULT_NAME, INPUT_COPY_NAME, RESULT_NAME>>)>>}

InitInference ==
    /\ inference \in {[cell |-> "upload", position |-> 1, calls |-> <<>>,
                       job_ids |-> <<>>, jobs |-> <<>>, pages |-> pages,
                       local_files |-> {}] : pages \in ResultListings}
    /\ call = [fn |-> "none", outcome |-> Pending]
    /\ stdout = <<>>
    /\ df = <<>>
    /\ next_row = 1
    /\ records = <<>>
    /\ apply_state = "idle"
    /\ training = NotStarted

\* upload_batch_inference_data(BUCKET_NAME, batch_inference_file, prefix):
\* a ClientError of head_bucket leads to create_s3_bucket, everything else
\* that is raised leaves the function
UploadBatchInferenceData ==
    /\ inference.cell = "upload"
    /\ \E head_bucket \in CallOutcomes, create_s3_bucket \in CallOutcomes,
          upload_file \in CallOutcomes :
         LET fn == "upload_batch_inference_data"
             creates == head_bucket = "ClientError"
             uploads == \/ head_bucket = OK
                        \/ creates /\ create_s3_bucket = OK
             made == <<Called(fn, "head_bucket", BUCKET_NAME, head_bucket)>>
                     \o (IF creates
                         THEN <<Called(fn, "create_s3_bucket", BUCKET_NAME,
                                       create_s3_bucket)>>
                         ELSE <<>>)
                     \o (IF uploads
                         THEN <<Called(fn, "upload_file", batch_inference_file,
                                       upload_file)>>
                         ELSE <<>>)
             last == made[Len(made)]
             lines == (IF head_bucket = OK
                       THEN <<Line("Bucket exists.", BUCKET_NAME)>>
                       ELSE IF creates
                            THEN <<Line("Creating bucket...", BUCKET_NAME)>>
                            ELSE <<>>)
                      \o (IF uploads /\ upload_file = OK
                          THEN <<Line("Uploaded to", batch_inference_file)>>
                          ELSE <<>>)
         IN  /\ stdout' = lines
             /\ call' = [fn |-> fn,
                         outcome |-> IF last.error = OK
                                     THEN Returns(batch_inference_file)
                                     ELSE Raises(last.error, last.api)]
             /\ inference' = [inference EXCEPT
                                !.calls = @ \o made,
                                !.cell = IF last.error = OK THEN "submit"
                                         ELSE "stopped"]
    /\ UNCHANGED <<df, next_row, records, apply_state, training>>

\* A variant of the loop that ends after its first iteration
AfterLoop_once(position, items, this_cell, next_cell) ==
    [cell |-> next_cell, position |-> 1]

\* The cell after the last iteration of a loop over items
AfterLoop(position, items, this_cell, next_cell) ==
    IF position >= Len(items) THEN [cell |-> next_cell, position |-> 1]
    ELSE [cell |-> this_cell, position |-> position + 1]

\* One iteration of: for model in models:
\*     job_id = submit_batch_inference_job(model, ...); job_ids.append(job_id)
SubmitBatchInferenceJob ==
    /\ inference.cell = "submit"
    /\ \E create_model_invocation_job \in CallOutcomes :
         LET fn == "submit_batch_inference_job"
             model_id == models[inference.position]
             job_id == JobArn(Len(inference.jobs) + 1)
             after == AfterLoop(inference.position, models, "submit", "status")
             made == Called(fn, "create_model_invocation_job", model_id,
                            create_model_invocation_job)
         IN  IF create_model_invocation_job = OK
             THEN /\ stdout' = <<Line("Submitted batch inference job for model",
                                      model_id),
                                 Line("Job ARN:", job_id)>>
                  /\ call' = [fn |-> fn, outcome |-> Returns(job_id)]
                  /\ inference' = [inference EXCEPT
                                     !.calls = Append(@, made),
                                     !.jobs = Append(@, JobDetails(job_id,
                                                                   model_id)),
                                     !.job_ids = Append(@, job_id),
                                     !.cell = after.cell,
                                     !.position = after.position]
             ELSE /\ stdout' = <<>>
                  /\ call' = [fn |-> fn,
                              outcome |-> Raises(create_model_invocation_job,
                                                 made.api)]
                  /\ inference' = [inference EXCEPT
                                     !.calls = Append(@, made),
                                     !.cell = "stopped"]
    /\ UNCHANGED <<df, next_row, records, apply_state, training>>

\* The statuses the service reports for a job
JobStatuses == {"InProgress", "Completed", "Failed"}

\* One iteration of: for job_id in job_ids:
\*     status = check_job_status(job_id); print("---")
CheckJobStatus ==
    /\ inference.cell = "status"
    /\ \E get_model_invocation_job \in CallOutcomes, status \in JobStatuses :
         LET fn == "check_job_status"
             job_id == inference.job_ids[inference.position]
             response == JobOf(job_id)
             after == AfterLoop(inference.position, inference.job_ids,
                                "status", "download")
             made == Called(fn, "get_model_invocation_job", job_id,
                            get_model_invocation_job)
         IN  IF get_model_invocation_job = OK
             THEN /\ stdout' = <<Line("Model:", response.modelId),
                                 Line("Status:", status)>>
                                \o (IF status = "COMPLETED"
                                    THEN <<Line("Output location:",
                                                response.s3Uri)>>
                                    ELSE IF status = "FAILED"
                                         THEN <<Line("Failure reason:",
                                                     "Unknown")>>
                                         ELSE <<>>)
                                \o <<Line("---", "")>>
                  /\ call' = [fn |-> fn, outcome |-> Returns(status)]
                  /\ inference' = [inference EXCEPT
                                     !.calls = Append(@, made),
                                     !.cell = after.cell,
                                     !.position = after.position]
             ELSE /\ stdout' = <<>>
                  /\ call' = [fn |-> fn,
                              outcome |-> Raises(get_model_invocation_job,
                                                 made.api)]
                  /\ inference' = [inference EXCEPT
                                     !.calls = Append(@, made),
                                     !.cell = "stopped"]
    /\ UNCHANGED <<df, next_row, records, apply_state, training>>

\* key.endswith('jsonl.out') and not key.endswith('manifest.json.out')
is_result_key(key) ==
    endswith(key, JSONL_OUT) /\ ~ endswith(key, MANIFEST_JSON_OUT)

\* filename[:-4]
without_last_four(filename) ==
    SubSeq(filename, 1, IF Len(filename) > 4 THEN Len(filename) - 4 ELSE 0)

\* os.path.join(target_directory, output_filename) for the key of a result
local_file_path(model_id, key) ==
    LET filename == basename(key)
    IN  TARGET_DIRECTORY
          \o (IF endswith(filename, DOT_OUT)
              THEN model_id \o <<"-">> \o without_last_four(filename)
              ELSE filename)

\* The prefix the results of a job are listed under
s3_prefix(response, job_id) ==
    response.s3Uri \o split_last(job_id, "/") \o <<"/">>

\* The keys of a listed page, none for a page without 'Contents'
page_keys(page, prefix) ==
    IF "Contents" \notin DOMAIN page THEN <<>>
    ELSE [i \in 1..Len(page.Contents) |-> prefix \o page.Contents[i]]

\* The calls download_batch_results makes when none of them fails: the job
\* lookup, then for each page its listing and the download of its results
RECURSIVE page_calls(_, _, _)
page_calls(pages, p, prefix) ==
    IF p > Len(pages) THEN <<>>
    ELSE LET fn == "download_batch_results"
             results == SelectSeq(page_keys(pages[p], prefix), is_result_key)
         IN  <<Called(fn, "list_objects_v2", prefix \o str_nat(p), OK)>>
             \o [i \in 1..Len(results) |->
                   Called(fn, "download_file", results[i], OK)]
             \o page_calls(pages, p + 1, prefix)

download_calls(job_id, response, pages) ==
    <<Called("download_batch_results", "get_model_invocation_job", job_id, OK)>>
    \o page_calls(pages, 1, s3_prefix(response, job_id))

IsDownload(made) == made.api = "download_file"

IsCompletedDownload(made) == made.api = "download_file" /\ made.error = OK

\* A variant of the handlers that keeps the error to itself
download_batch_results_except_quiet(error, api) ==
    [stdout |-> <<>>, outcome |-> Returns(<<>>)]

\* except ClientError as e: print(...); raise
\* except Exception as e: print(...); raise
download_batch_results_except(error, api) ==
    [stdout |-> <<Line(IF error = "ClientError"
                       THEN "Error downloading batch results:"
                       ELSE "Unexpected error:", error)>>,
     outcome |-> Raises(error, api)]

\* One iteration of: for job in job_ids:
\*     download_batch_results(job_id=job, target_directory=...)
\* the call numbered failed_at raises error, none does for failed_at = 0
DownloadBatchResults ==
    /\ inference.cell = "download"
    /\ LET fn == "download_batch_results"
           job_id == inference.job_ids[inference.position]
           response == JobOf(job_id)
           model_id == replace(replace(split_last(response.modelId, "/"),
                                       ".", "-"), ":", "-")
           plan == download_calls(job_id, response, inference.pages)
           after == AfterLoop(inference.position, inference.job_ids,
                              "download", "end")
       IN  \E failed_at \in 0..Len(plan), error \in ErrorTypes :
             LET made == IF failed_at = 0 THEN plan
                         ELSE [i \in 1..failed_at |->
                                 IF i < failed_at THEN plan[i]
                                 ELSE [plan[i] EXCEPT !.error = error]]
                 tried == SelectSeq(made, IsDownload)
                 completed == SelectSeq(made, IsCompletedDownload)
                 downloading == [i \in 1..Len(tried) |->
                                   Line("Downloading", tried[i].target)]
                 downloaded_files ==
                     [i \in 1..Len(completed) |->
                        local_file_path(model_id, completed[i].target)]
                 handled == download_batch_results_except(
                                error, made[Len(made)].api)
             IN  /\ stdout' = IF failed_at = 0 THEN downloading
                              ELSE downloading \o handled.stdout
                 /\ call' = [fn |-> fn, job_id |-> job_id,
                             outcome |-> IF failed_at = 0
                                         THEN Returns(downloaded_files)
                                         ELSE handled.outcome]
                 /\ inference' = [inference EXCEPT
                        !.calls = @ \o made,
                        !.local_files = @ \cup Range(downloaded_files),
                        !.cell = IF failed_at = 0 \/ handled.outcome.kind = "return"
                                 THEN after.cell ELSE "stopped",
                        !.position = IF failed_at = 0
                                        \/ handled.outcome.kind = "return"
                                     THEN after.position ELSE @]
    /\ UNCHANGED <<df, next_row, records, apply_state, training>>

NextInference ==
    \/ UploadBatchInferenceData
    \/ SubmitBatchInferenceJob
    \/ CheckJobStatus
    \/ DownloadBatchResults

SpecInference == InitInference /\ [][NextInference]_vars

-----------------------------------------------------------------------------
(* 01_prepare_data.ipynb, the training data of the distillation job:
   df_train_revised, its 10% sample with ground truth, the rest without,
   their concatenation and distillation_data.jsonl *)

MaxSampleSize == 10

\* A row of the frame with its index label
Labelled(index, row) == [index |-> index, row |-> row]

\* pd.concat([empty_answers_df.sample(n=...), with_answers_df.sample(n=...)],
\*           ignore_index=True): n rows without an answer, then n rows with
\* one, labelled 0, 1, ...
df_train_revised(n) ==
    [i \in 1..(2 * n) |->
        Labelled(i - 1,
                 IF i <= n
                 THEN Row(<<"r">> \o str_nat(i), <<"A", ".", " ", "b">>,
                          ArrayAnswers(<<>>, <<>>))
                 ELSE Row(<<"r">> \o str_nat(i), PARIS,
                          ArrayAnswers(<<TEXT_PARIS>>, <<PyInt(0)>>)))]

\* A variant of the sample size that rounds up
ground_truth_count_ceil(row_count) == (row_count + 9) \div 10

\* int(0.1 * row_count): the double 0.1 is above 1/10 and the product is
\* rounded to a double no smaller than row_count / 10 when 10 divides
\* row_count, so int() yields the floor of the tenth
ground_truth_count(row_count) == row_count \div 10

\* The orders in which DataFrame.sample(n=n) can pick n rows of the frame:
\* positions without repetition
Samples(frame, n) ==
    {picked \in [1..n -> 1..Len(frame)] :
        \A j, k \in 1..n : j # k => picked[j] # picked[k]}

\* frame.drop(labels)
drop(frame, labels) == SelectSeq(frame, LAMBDA r : r.index \notin labels)

\* frame['conversation'] = frame.apply(lambda row: create_bedrock_payload(
\*     row=row, model_type="conversation", system_prompt=system_prompt,
\*     include_answer=include_answer), axis=1)
with_conversation(frame, include_answer) ==
    [k \in 1..Len(frame) |->
        [index |-> frame[k].index, row |-> frame[k].row,
         conversation |->
             create_bedrock_payload(frame[k].row, CONVERSATION,
                                    PyStrVal(SYSTEM_PROMPT), include_answer,
                                    None).value]]

\* pd.concat([first, second], axis=0, ignore_index=True).sort_index()
concat_ignore_index(first, second) ==
    [k \in 1..(Len(first) + Len(second)) |->
        [(first \o second)[k] EXCEPT !.index = k - 1]]

InitTraining ==
    /\ training \in {[cell |-> "sample",
                      df_train_revised |-> df_train_revised(n),
                      training_data_with_gt_df |-> <<>>,
                      training_data_without_gt_df |-> <<>>,
                      final_training_dataset |-> <<>>,
                      distillation_data |-> <<>>] : n \in 0..MaxSampleSize}
    /\ call = [fn |-> "none", outcome |-> Pending]
    /\ stdout = <<>>
    /\ df = <<>>
    /\ next_row = 1
    /\ records = <<>>
    /\ apply_state = "idle"
    /\ inference = NotStarted

\* The cell that samples the rows with ground truth, drops them from the
\* rest and builds the conversations with ground truth
SampleGroundTruth ==
    /\ training.cell = "sample"
    /\ LET frame == training.df_train_revised
           row_count == Len(frame)
       IN  \E picked \in Samples(frame, ground_truth_count(row_count)) :
             LET sampled == [k \in DOMAIN picked |-> frame[picked[k]]]
             IN  training' = [training EXCEPT
                    !.cell = "without",
                    !.training_data_with_gt_df =
                        with_conversation(sampled, TRUE),
                    !.training_data_without_gt_df =
                        drop(frame, {sampled[k].index : k \in DOMAIN sampled})]
    /\ UNCHANGED <<call, stdout, df, next_row, records, apply_state, inference>>

\* The cell that builds the conversations without ground truth
BuildWithoutGroundTruth ==
    /\ training.cell = "without"
    /\ training' = [training EXCEPT
                      !.cell = "concat",
                      !.training_data_without_gt_df =
                          with_conversation(@, FALSE)]
    /\ UNCHANGED <<call, stdout, df, next_row, records, apply_state, inference>>

\* The cell that concatenates the two frames
ConcatTrainingData ==
    /\ training.cell = "concat"
    /\ training' = [training EXCEPT
                      !.cell = "write",
                      !.final_training_dataset =
                          concat_ignore_index(training.training_data_with_gt_df,
                                              training.training_data_without_gt_df)]
    /\ UNCHANGED <<call, stdout, df, next_row, records, apply_state, inference>>

\* final_training_dataset['conversation'].to_json('distillation_data.jsonl',
\*                                                orient='records', lines=True)
WriteDistillationData ==
    /\ training.cell = "write"
    /\ training' = [training EXCEPT
                      !.cell = "done",
                      !.distillation_data =
                          [k \in 1..Len(training.final_training_dataset) |->
                              training.final_training_dataset[k].conversation]]
    /\ UNCHANGED <<call, stdout, df, next_row, records, apply_state, inference>>

NextTraining ==
    \/ SampleGroundTruth
    \/ BuildWithoutGroundTruth
    \/ ConcatTrainingData
    \/ WriteDistillationData

SpecTraining == InitTraining /\ [][NextTraining]_vars

-----------------------------------------------------------------------------
(* Properties *)

XmlReturned == call.fn = "create_xml_answer" /\ call.outcome # Pending

PayloadReturned == call.fn = "create_bedrock_payload" /\ call.outcome # Pending

SupportedModelTypes == {CONVERSATION, INVOKE}

ErrorMarkup(description) == ERROR_HEAD \o description \o ERROR_TAIL

\* The positions at which pattern occurs in s
Occurrences(s, pattern) ==
    {i \in 1..(Len(s) - Len(pattern) + 1) :
        SubSeq(s, i, i + Len(pattern) - 1) = pattern}

\* C1: for every row and every shape selector other than "conversation" and
\* "invoke", create_bedrock_payload raises the unsupported-selector error to
\* its caller and returns no value.
C1_UnsupportedSelectorRaised ==
    (PayloadReturned /\ call.model_type \notin SupportedModelTypes)
        => /\ call.outcome.kind = "raise"
           /\ call.outcome.type = "ValueError"

\* C2: applying create_batch_inf_record to rows that each carry an id never
\* raises and collects one record per row, in row order: recordId is the
\* row's id and modelInput the payload builder's result, which is None for a
\* row without passage or question and carries the error markup for a row
\* whose markup failed; when the apply is done there is a record for every row.
C2_OneRecordPerRow ==
    (\A i \in 1..Len(df) : "id" \in DOMAIN df[i])
        => /\ apply_state # "raised"
           /\ Len(records) = next_row - 1
           /\ apply_state = "done" => Len(records) = Len(df)
           /\ \A i \in 1..Len(records) :
                LET row == df[i]
                    modelInput == records[i].modelInput
                IN  /\ records[i].recordId = row["id"]
                    /\ modelInput =
                         create_bedrock_payload(row, INVOKE, call.system_prompt,
                             call.include_answer, PyDict(EmptyDict)).value
                    /\ {"context", "question"} \subseteq DOMAIN row
                         <=> modelInput # None
                    /\ (/\ modelInput # None
                        /\ call.include_answer
                        /\ "answers" \notin DOMAIN row)
                         => modelInput.messages[2].content[1].text
                              = ErrorMarkup(repr_str(KEY_ANSWERS))

C2_FailedRowThenLaterRow ==
    /\ apply_state = "done"
    /\ Len(records) = 2
    /\ records[1].modelInput = None
    /\ records[2].recordId = <<"r", "2">>

\* C3: create_xml_answer always returns a string, and when its body fails
\* the string is the error markup with the failure's description.
C3_XmlAnswerNeverRaises ==
    XmlReturned
        => LET body == xml_answer_try(call.row, call.no_answer_text)
               answers == call.row["answers"]
           IN  /\ call.outcome.kind = "return"
               /\ call.outcome.value \in Seq(STRING)
               /\ body.kind = "raise"
                    => call.outcome.value = ErrorMarkup(body.msg)
               /\ "answers" \notin DOMAIN call.row
                    => call.outcome.value = ErrorMarkup(repr_str(KEY_ANSWERS))
               /\ ("answers" \in DOMAIN call.row /\ answers = PyDict(EmptyDict))
                    => call.outcome.value
                         = ErrorMarkup(UNKNOWN_FORMAT \o <<"{", "}">>)
               /\ ("answers" \in DOMAIN call.row
                   /\ answers = ListAnswers(<<TEXT_B>>, <<PyStrVal(<<"x">>)>>))
                    => call.outcome.value
                         = ErrorMarkup(INVALID_LITERAL \o <<"'", "x", "'">>)

C3_FailureBecameErrorMarkup ==
    /\ XmlReturned
    /\ "answers" \in DOMAIN call.row
    /\ call.row["answers"] = ListAnswers(<<TEXT_A, TEXT_B>>, <<PyInt(0), PyStrVal(<<"x">>)>>)
    /\ call.outcome = Returns(ErrorMarkup(INVALID_LITERAL \o <<"'", "x", "'">>))

\* C4: with a supported shape selector create_bedrock_payload never raises,
\* and a failure inside it (a row without passage or question, extra fields
\* that are no mapping) comes back as None.
C4_FailureReturnsNone ==
    (PayloadReturned /\ call.model_type \in SupportedModelTypes)
        => /\ call.outcome.kind = "return"
           /\ ({"context", "question"} \subseteq DOMAIN call.row
               /\ call.additional_params.t # "list")
                <=> call.outcome.value # None

C4_MissingQuestionReturnedNone ==
    /\ PayloadReturned
    /\ call.model_type = CONVERSATION
    /\ "context" \in DOMAIN call.row
    /\ "question" \notin DOMAIN call.row
    /\ call.outcome = Returns(None)
    /\ Len(stdout) = 1

\* The k-th smallest element of a set of numbers
Kth(S, k) == CHOOSE x \in S : Cardinality({y \in S : y < x}) = k - 1

\* A row as the dataset defines it: passage present, texts and offsets in
\* parallel collections of one length, every offset an int
WellFormedRow(row) ==
    /\ {"context", "answers"} \subseteq DOMAIN row
    /\ row["answers"].t = "dict"
    /\ DOMAIN row["answers"].v = {"text", "answer_start"}
    /\ LET text == row["answers"].v["text"]
           answer_start == row["answers"].v["answer_start"]
       IN  /\ text.t \in {"ndarray", "list"}
           /\ answer_start.t = text.t
           /\ Len(answer_start.v) = Len(text.v)
           /\ \A i \in 1..Len(text.v) :
                text.v[i].t = "str" /\ answer_start.v[i].t = "int"

OccurrenceTexts(row) == row["answers"].v["text"].v

OccurrenceOffsets(row) == row["answers"].v["answer_start"].v

\* The k-th answer_part block of a markup string, its closing tag left out
AnswerPartBlock(markup, k) ==
    SubSeq(markup, Kth(Occurrences(markup, TAG_ANSWER_PART), k),
           Kth(Occurrences(markup, TAG_ANSWER_PART_END), k) - 1)

\* C5: for a row with N >= 1 answer occurrences the markup holds exactly N
\* answer_part blocks; the k-th block carries the k-th occurrence's text and
\* exactly one source element, whatever the texts are.
C5_OnePartPerOccurrence ==
    (XmlReturned /\ WellFormedRow(call.row)
     /\ Len(OccurrenceTexts(call.row)) >= 1)
        => LET markup == call.outcome.value
               texts == OccurrenceTexts(call.row)
               N == Len(texts)
           IN  /\ Cardinality(Occurrences(markup, TAG_ANSWER_PART)) = N
               /\ Cardinality(Occurrences(markup, TAG_ANSWER_PART_END)) = N
               /\ \A k \in 1..N :
                    LET block == AnswerPartBlock(markup, k)
                        opening == TAG_ANSWER_PART \o <<"\n">> \o TAG_TEXT
                                     \o <<"\n">> \o texts[k].v \o <<"\n">>
                                     \o TAG_TEXT_END \o <<"\n">> \o TAG_SOURCES
                    IN  /\ Len(block) >= Len(opening)
                        /\ SubSeq(block, 1, Len(opening)) = opening
                        /\ Cardinality(Occurrences(block, TAG_SOURCE)) = 1
                        /\ Cardinality(Occurrences(block, TAG_SOURCE_END)) = 1
                        /\ Cardinality(Occurrences(block, TAG_SOURCES)) = 1
                        /\ Cardinality(Occurrences(block, TAG_TEXT)) = 1

C5_TwoPartsWithTheSameText ==
    /\ XmlReturned
    /\ WellFormedRow(call.row)
    /\ call.row["context"] = MR_PASSAGE
    /\ call.row["answers"]
         = ArrayAnswers(<<TEXT_B, TEXT_B>>, <<PyInt(3), PyInt(0)>>)
    /\ Cardinality(Occurrences(call.outcome.value, TAG_ANSWER_PART)) = 2

C6_HEAD ==
    <<"<","a","n","s","w","e","r",">","\n","<","a","n","s","w","e","r","_",
      "p","a","r","t",">","\n","<","t","e","x","t",">","\n">>

C6_TAIL ==
    <<"\n","<","/","t","e","x","t",">","\n","<","/","a","n","s","w","e","r",
      "_","p","a","r","t",">","<","/","a","n","s","w","e","r",">">>

ZeroOccurrences(row) ==
    /\ {"context", "answers"} \subseteq DOMAIN row
    /\ row["answers"] \in {ArrayAnswers(<<>>, <<>>), ListAnswers(<<>>, <<>>),
                           PyStrVal(JSON_NO_ANSWERS)}

\* C6: for a row with no answer occurrence and every no-answer message m the
\* markup is exactly "<answer>\n<answer_part>\n<text>\n" m
\* "\n</text>\n</answer_part></answer>": one answer_part, no source tag.
C6_NoAnswerMarkup ==
    (XmlReturned /\ ZeroOccurrences(call.row))
        => LET markup == call.outcome.value
           IN  /\ call.outcome.kind = "return"
               /\ markup = C6_HEAD \o call.no_answer_text \o C6_TAIL
               /\ Cardinality(Occurrences(markup, TAG_ANSWER_PART)) = 1
               /\ Occurrences(markup, <<"<","s","o","u","r","c","e">>) = {}

C6_ConfiguredMessageUsed ==
    /\ XmlReturned
    /\ ZeroOccurrences(call.row)
    /\ call.no_answer_text = <<"n", "o">>
    /\ call.outcome = Returns(C6_HEAD \o <<"n", "o">> \o C6_TAIL)

C7_FLAT_MARKUP ==
    <<"<","a","n","s","w","e","r",">","<","a","n","s","w","e","r","_","p",
      "a","r","t",">","<","t","e","x","t",">","P","a","r","i","s","<","/",
      "t","e","x","t",">","<","s","o","u","r","c","e","s",">","<","s","o",
      "u","r","c","e",">","P","a","r","i","s"," ","i","s"," ","t","h","e",
      " ","c","a","p","i","t","a","l"," ","o","f"," ","F","r","a","n","c",
      "e",".","<","/","s","o","u","r","c","e",">","<","/","s","o","u","r",
      "c","e","s",">","<","/","a","n","s","w","e","r","_","p","a","r","t",
      ">","<","/","a","n","s","w","e","r",">">>

C7_JOINED_MARKUP ==
    <<"<","a","n","s","w","e","r",">","\n","<","a","n","s","w","e","r","_",
      "p","a","r","t",">","\n","<","t","e","x","t",">","\n","P","a","r","i",
      "s","\n","<","/","t","e","x","t",">","\n","<","s","o","u","r","c","e",
      "s",">","\n","<","s","o","u","r","c","e",">","P","a","r","i","s"," ",
      "i","s"," ","t","h","e"," ","c","a","p","i","t","a","l"," ","o","f",
      " ","F","r","a","n","c","e",".","<","/","s","o","u","r","c","e",">",
      "\n","<","/","s","o","u","r","c","e","s",">","\n","<","/","a","n","s",
      "w","e","r","_","p","a","r","t",">","\n","<","/","a","n","s","w","e",
      "r",">">>

ParisRow(row) ==
    /\ {"context", "answers"} \subseteq DOMAIN row
    /\ row["context"] = PARIS
    /\ row["answers"] \in {ArrayAnswers(<<TEXT_PARIS>>, <<PyInt(0)>>),
                           ListAnswers(<<TEXT_PARIS>>, <<PyInt(0)>>)}

\* C7 as stated: for the Paris passage with the occurrence ("Paris", 0) the
\* markup is the tags and texts with no character between them.
C7_FlatMarkup ==
    (XmlReturned /\ ParisRow(call.row))
        => call.outcome = Returns(C7_FLAT_MARKUP)

\* C7: for the Paris passage with the occurrence ("Paris", 0) the markup is
\* the tags and texts joined by one newline each, the source element
\* "<source>Paris is the capital of France.</source>" on one line.
C7_JoinedMarkup ==
    (XmlReturned /\ ParisRow(call.row))
        => call.outcome = Returns(C7_JOINED_MARKUP)

C7_ParisAnswered ==
    /\ XmlReturned
    /\ ParisRow(call.row)
    /\ Occurrences(call.outcome.value,
                   TAG_SOURCE \o PARIS_SENT \o TAG_SOURCE_END) # {}

\* A well-formed row with one occurrence: its offset, the sentences of its
\* passage and the text of the markup's source element
SingleOccurrence(row) ==
    WellFormedRow(row) /\ Len(OccurrenceTexts(row)) = 1

OffsetOf(row) == OccurrenceOffsets(row)[1].v

SentencesOf(row) == re_split(row["context"])

SourceText(markup) ==
    SubSeq(markup,
           Kth(Occurrences(markup, TAG_SOURCE), 1) + Len(TAG_SOURCE),
           Kth(Occurrences(markup, TAG_SOURCE_END), 1) - 1)

\* The reconstructed start of sentence k: the lengths before it, one
\* separator each
RECURSIVE RangeStart(_, _)
RangeStart(sentences, k) ==
    IF k = 1 THEN 0
    ELSE RangeStart(sentences, k - 1) + Len(sentences[k - 1]) + 1

InRange(sentences, k, offset) ==
    /\ RangeStart(sentences, k) <= offset
    /\ offset < RangeStart(sentences, k) + Len(sentences[k]) + 1

\* C8 as stated: an offset inside the reconstructed range of sentence s
\* puts exactly s in the source element.
C8_ExactSentence ==
    (XmlReturned /\ SingleOccurrence(call.row))
        => \A k \in 1..Len(SentencesOf(call.row)) :
             InRange(SentencesOf(call.row), k, OffsetOf(call.row))
                => SourceText(call.outcome.value) = SentencesOf(call.row)[k]

\* C8: an offset inside the reconstructed range of sentence s puts s without
\* its leading and trailing whitespace in the source element.
C8_StrippedSentence ==
    (XmlReturned /\ SingleOccurrence(call.row))
        => \A k \in 1..Len(SentencesOf(call.row)) :
             InRange(SentencesOf(call.row), k, OffsetOf(call.row))
                => SourceText(call.outcome.value)
                     = strip(SentencesOf(call.row)[k])

C8_SentenceWithLeadingSpace ==
    /\ XmlReturned
    /\ SingleOccurrence(call.row)
    /\ call.row["context"] = <<".", " ", " ", "b">>
    /\ OffsetOf(call.row) = 3
    /\ InRange(SentencesOf(call.row), 2, 3)
    /\ SentencesOf(call.row)[2] = <<" ", "b">>
    /\ SourceText(call.outcome.value) = <<"b">>

C9_LOWER_SENTINEL ==
    <<"n","o"," ","r","e","l","e","v","a","n","t"," ","s","o","u","r","c",
      "e"," ","f","o","u","n","d">>

C9_SENTINEL ==
    <<"N","o"," ","r","e","l","e","v","a","n","t"," ","s","o","u","r","c",
      "e"," ","f","o","u","n","d">>

ReconstructedLength(sentences) == RangeStart(sentences, Len(sentences) + 1)

\* C9 as stated: an offset at or beyond the reconstructed passage length
\* yields the sentinel "no relevant source found".
C9_LowerCaseSentinel ==
    (/\ XmlReturned
     /\ SingleOccurrence(call.row)
     /\ OffsetOf(call.row) >= ReconstructedLength(SentencesOf(call.row)))
        => SourceText(call.outcome.value) = C9_LOWER_SENTINEL

\* C9: an offset at or beyond the reconstructed passage length does not
\* fail and yields the sentinel "No relevant source found".
C9_Sentinel ==
    (/\ XmlReturned
     /\ SingleOccurrence(call.row)
     /\ OffsetOf(call.row) >= ReconstructedLength(SentencesOf(call.row)))
        => /\ call.outcome.kind = "return"
           /\ Occurrences(call.outcome.value, ERROR_HEAD) = {}
           /\ SourceText(call.outcome.value) = C9_SENTINEL

C9_OffsetPastTheEnd ==
    /\ XmlReturned
    /\ SingleOccurrence(call.row)
    /\ call.row["context"] = <<"A", ".", " ", "b">>
    /\ OffsetOf(call.row) = 5
    /\ ReconstructedLength(SentencesOf(call.row)) = 5
    /\ SourceText(call.outcome.value) = C9_SENTINEL

\* C10: an invoke payload for a row with passage and question and no extra
\* fields has two turns, user then assistant with the citation markup, when
\* include_answer is set, and the user turn alone when it is not.
C10_UserThenAssistant ==
    (/\ PayloadReturned
     /\ call.model_type = INVOKE
     /\ {"context", "question"} \subseteq DOMAIN call.row
     /\ ~ truthy(call.additional_params))
        => /\ call.outcome.kind = "return"
           /\ call.outcome.value # None
           /\ LET messages == call.outcome.value.messages
              IN  /\ messages[1].role = "user"
                  /\ \A i \in 1..Len(messages) :
                       messages[i].role = "assistant" => i > 1
                  /\ IF call.include_answer
                     THEN /\ Len(messages) = 2
                          /\ messages[2].role = "assistant"
                          /\ messages[2].content
                               = <<[text |-> create_xml_answer(call.row,
                                       DEFAULT_NO_ANSWER_TEXT).value]>>
                     ELSE Len(messages) = 1

C10_TwoTurnsBuilt ==
    /\ PayloadReturned
    /\ call.model_type = INVOKE
    /\ call.include_answer
    /\ call.additional_params = PyDict(EmptyDict)
    /\ call.outcome.value # None
    /\ Len(call.outcome.value.messages) = 2
    /\ call.outcome.value.messages[2].role = "assistant"

C11_CONTEXT_OPEN ==
    <<"<","c","o","n","t","e","x","t",">">>

C11_CONTEXT_CLOSE ==
    <<"<","/","c","o","n","t","e","x","t",">">>

C11_QUESTION_OPEN ==
    <<"<","q","u","e","s","t","i","o","n",">">>

C11_QUESTION_CLOSE ==
    <<"<","/","q","u","e","s","t","i","o","n",">">>

\* A payload came back and the extra fields did not replace its message list
PayloadWithOwnMessages ==
    /\ PayloadReturned
    /\ call.outcome.kind = "return"
    /\ call.outcome.value # None
    /\ ~ (/\ call.model_type = INVOKE
          /\ call.additional_params.t = "dict"
          /\ "messages" \in DOMAIN call.additional_params.v)

UserText == call.outcome.value.messages[1].content[1].text

\* C11 as stated: the user turn's one text block is the passage in a
\* context tag directly followed by the question in a question tag.
C11_NoSeparator ==
    PayloadWithOwnMessages
        => /\ call.outcome.value.messages[1].role = "user"
           /\ Len(call.outcome.value.messages[1].content) = 1
           /\ UserText = C11_CONTEXT_OPEN \o call.row["context"]
                           \o C11_CONTEXT_CLOSE \o C11_QUESTION_OPEN
                           \o call.row["question"] \o C11_QUESTION_CLOSE

\* C11: for both payload shapes the user turn's one text block is the
\* passage in a context tag, one space, and the question in a question tag.
C11_OneSpaceSeparator ==
    PayloadWithOwnMessages
        => /\ call.outcome.value.messages[1].role = "user"
           /\ Len(call.outcome.value.messages[1].content) = 1
           /\ UserText = C11_CONTEXT_OPEN \o call.row["context"]
                           \o C11_CONTEXT_CLOSE \o <<" ">> \o C11_QUESTION_OPEN
                           \o call.row["question"] \o C11_QUESTION_CLOSE

C11_ParisPrompt ==
    /\ PayloadWithOwnMessages
    /\ call.model_type = CONVERSATION
    /\ call.row["context"] = PARIS
    /\ Occurrences(UserText, C11_CONTEXT_CLOSE \o <<" ">> \o C11_QUESTION_OPEN)
         = {Len(C11_CONTEXT_OPEN) + Len(PARIS) + 1}

FixedGenerationParameters ==
    [temperature |-> [num |-> 1, den |-> 10],
     topP |-> [num |-> 9, den |-> 10],
     topK |-> 50,
     stopSequences |-> <<<<"<","/","a","n","s","w","e","r",">">>>>]

PayloadBuilt ==
    /\ PayloadReturned
    /\ call.outcome.kind = "return"
    /\ call.outcome.value # None

ExtraFields ==
    IF call.additional_params.t = "dict" THEN call.additional_params.v
    ELSE EmptyDict

\* C12 as stated: whatever the extra fields, an invoke payload carries the
\* fixed generation parameters under inferenceConfig, and a conversation
\* payload built with no extra fields has no inferenceConfig.
C12_AlwaysFixedParameters ==
    PayloadBuilt
        => /\ call.model_type = INVOKE
                => /\ "inferenceConfig" \in DOMAIN call.outcome.value
                   /\ call.outcome.value.inferenceConfig
                        = FixedGenerationParameters
           /\ (call.model_type = CONVERSATION /\ DOMAIN ExtraFields = {})
                => "inferenceConfig" \notin DOMAIN call.outcome.value

\* C12: an invoke payload carries the fixed generation parameters under
\* inferenceConfig unless the extra fields have an inferenceConfig key, whose
\* value then takes their place; a conversation payload built with no extra
\* fields has no inferenceConfig.
C12_FixedParametersUnlessReplaced ==
    PayloadBuilt
        => /\ call.model_type = INVOKE
                => /\ "inferenceConfig" \in DOMAIN call.outcome.value
                   /\ call.outcome.value.inferenceConfig
                        = IF "inferenceConfig" \in DOMAIN ExtraFields
                          THEN ExtraFields["inferenceConfig"]
                          ELSE FixedGenerationParameters
           /\ (call.model_type = CONVERSATION /\ DOMAIN ExtraFields = {})
                => "inferenceConfig" \notin DOMAIN call.outcome.value

C12_ParametersNextToExtraField ==
    /\ PayloadBuilt
    /\ call.model_type = INVOKE
    /\ call.additional_params = PyDict([maxTokens |-> 100])
    /\ call.outcome.value.inferenceConfig = FixedGenerationParameters
    /\ call.outcome.value.maxTokens = 100

ConversationKeys == {"schemaVersion", "system", "messages"}

\* C13: an invoke payload holds every extra key with the given value, also
\* where the payload had the key; a conversation payload gains the extra
\* keys it did not have and keeps schemaVersion, system and messages.
C13_ExtraFieldsMerged ==
    (PayloadBuilt /\ call.additional_params.t = "dict")
        => LET payload == call.outcome.value
           IN  /\ call.model_type = INVOKE
                    => /\ DOMAIN payload
                            = {"system", "messages", "inferenceConfig"}
                                \cup DOMAIN ExtraFields
                       /\ \A k \in DOMAIN ExtraFields :
                            payload[k] = ExtraFields[k]
               /\ call.model_type = CONVERSATION
                    => /\ DOMAIN payload
                            = ConversationKeys \cup DOMAIN ExtraFields
                       /\ \A k \in DOMAIN ExtraFields \ ConversationKeys :
                            payload[k] = ExtraFields[k]
                       /\ payload.schemaVersion = "bedrock-conversation-2024"
                       /\ payload.system
                            = IF truthy(call.system_prompt)
                              THEN <<[text |-> call.system_prompt.v]>>
                              ELSE <<>>
                       /\ Len(payload.messages) >= 1
                       /\ payload.messages[1].role = "user"

C13_ConversationKeysKept ==
    /\ PayloadBuilt
    /\ call.model_type = CONVERSATION
    /\ call.system_prompt = PyStrVal(SYSTEM_PROMPT)
    /\ call.additional_params
         = PyDict([schemaVersion |-> "custom", system |-> <<>>, maxTokens |-> 100])
    /\ call.outcome.value.schemaVersion = "bedrock-conversation-2024"
    /\ Len(call.outcome.value.system) = 1
    /\ call.outcome.value.maxTokens = 100

C14_ERROR_OPEN ==
    <<"<","e","r","r","o","r",">">>

C14_ERROR_CLOSE ==
    <<"<","/","e","r","r","o","r",">">>

\* The tags of a markup string in order: every "<" up to the next ">"
RECURSIVE TagTokens(_, _)
TagTokens(markup, i) ==
    LET opening == {j \in i..Len(markup) : markup[j] = "<"}
    IN  IF opening = {} THEN <<>>
        ELSE LET first == SetMin(opening)
                 closing == {j \in first..Len(markup) : markup[j] = ">"}
             IN  IF closing = {} THEN <<SubSeq(markup, first, Len(markup))>>
                 ELSE <<SubSeq(markup, first, SetMin(closing))>>
                      \o TagTokens(markup, SetMin(closing) + 1)

C14_ANSWER ==
    <<"<","a","n","s","w","e","r",">">>

C14_ANSWER_PART ==
    <<"<","a","n","s","w","e","r","_","p","a","r","t",">">>

C14_TEXT ==
    <<"<","t","e","x","t",">">>

C14_SOURCES ==
    <<"<","s","o","u","r","c","e","s",">">>

C14_SOURCE ==
    <<"<","s","o","u","r","c","e",">">>

C14_ANSWER_END ==
    <<"<","/","a","n","s","w","e","r",">">>

C14_ANSWER_PART_END ==
    <<"<","/","a","n","s","w","e","r","_","p","a","r","t",">">>

C14_TEXT_END ==
    <<"<","/","t","e","x","t",">">>

C14_SOURCES_END ==
    <<"<","/","s","o","u","r","c","e","s",">">>

C14_SOURCE_END ==
    <<"<","/","s","o","u","r","c","e",">">>

OpeningTags ==
    [answer |-> C14_ANSWER, answer_part |-> C14_ANSWER_PART, text |-> C14_TEXT,
     sources |-> C14_SOURCES, source |-> C14_SOURCE]

ClosingTags ==
    [answer |-> C14_ANSWER_END, answer_part |-> C14_ANSWER_PART_END,
     text |-> C14_TEXT_END, sources |-> C14_SOURCES_END,
     source |-> C14_SOURCE_END]

\* The element each element must sit in; answer sits at the top
ParentTag ==
    [answer |-> "", answer_part |-> "answer", text |-> "answer_part",
     sources |-> "answer_part", source |-> "sources"]

\* The tokens from i on nest as the format fixes, open the elements of stack
RECURSIVE WellNested(_, _, _)
WellNested(tokens, i, stack) ==
    IF i > Len(tokens) THEN stack = <<>>
    ELSE LET opened == {n \in DOMAIN OpeningTags : OpeningTags[n] = tokens[i]}
             closed == {n \in DOMAIN ClosingTags : ClosingTags[n] = tokens[i]}
             top == IF stack = <<>> THEN "" ELSE stack[Len(stack)]
         IN  IF opened # {}
             THEN /\ ParentTag[CHOOSE n \in opened : TRUE] = top
                  /\ WellNested(tokens, i + 1,
                                Append(stack, CHOOSE n \in opened : TRUE))
             ELSE /\ closed = {top}
                  /\ WellNested(tokens, i + 1, SubSeq(stack, 1, Len(stack) - 1))

UsesOnlyCitationTags(markup) == WellNested(TagTokens(markup, 1), 1, <<>>)

\* C14 as stated: every string create_xml_answer returns, also for a row
\* whose processing fails, is built from the tags answer, answer_part, text,
\* sources and source alone, nested as the format fixes, without attributes.
C14_OnlyCitationTags ==
    XmlReturned
        => /\ call.outcome.kind = "return"
           /\ UsesOnlyCitationTags(call.outcome.value)

\* C14: the string create_xml_answer returns for a row whose processing
\* succeeds is built from the tags answer, answer_part, text, sources and
\* source alone, nested as the format fixes, without attributes; for a row
\* whose processing fails it is an answer element that holds one error
\* element.
C14_CitationTagsOrErrorElement ==
    XmlReturned
        => /\ call.outcome.kind = "return"
           /\ IF xml_answer_try(call.row, call.no_answer_text).kind = "return"
              THEN UsesOnlyCitationTags(call.outcome.value)
              ELSE TagTokens(call.outcome.value, 1)
                     = <<C14_ANSWER, C14_ERROR_OPEN, C14_ERROR_CLOSE,
                         C14_ANSWER_END>>

C14_TwoPartsNested ==
    /\ XmlReturned
    /\ WellFormedRow(call.row)
    /\ Len(OccurrenceTexts(call.row)) = 2
    /\ Len(TagTokens(call.outcome.value, 1)) = 18
    /\ UsesOnlyCitationTags(call.outcome.value)

SegmenterReturned == call.fn = "re.split" /\ call.outcome # Pending

TerminalMarks == {".", "?", "!"}

\* C15: a passage without ".", "?" and "!" comes back from the segmenter as
\* one sentence, the passage itself.
C15_NoTerminalMarkOneSentence ==
    (/\ SegmenterReturned
     /\ \A i \in 1..Len(call.context) : call.context[i] \notin TerminalMarks)
        => call.outcome.value = <<call.context>>

C15_WhitespaceButNoMark ==
    /\ SegmenterReturned
    /\ call.context = <<"A"," ","b","\n","A">>
    /\ call.outcome.value = <<call.context>>

\* The k-th smallest of a set of positions
PointNo(points, k) ==
    CHOOSE p \in points : Cardinality({q \in points : q <= p}) = k

\* The pieces of context between the positions of points, those dropped
Pieces(context, points) ==
    [k \in 1..(Cardinality(points) + 1) |->
        SubSeq(context,
               IF k = 1 THEN 1 ELSE PointNo(points, k - 1) + 1,
               IF k = Cardinality(points) + 1 THEN Len(context)
               ELSE PointNo(points, k) - 1)]

\* The rule as stated: whitespace after a terminal mark, unless the mark is
\* a period after a lone upper-case letter or after two word characters
StatedSplitPoint(context, i) ==
    /\ context[i] \in Whitespace
    /\ i >= 2
    /\ context[i - 1] \in TerminalMarks
    /\ ~ (/\ context[i - 1] = "."
          /\ i >= 3
          /\ context[i - 2] \in UpperCase
          /\ (i = 3 \/ context[i - 3] \notin WordChar))
    /\ ~ (/\ context[i - 1] = "."
          /\ i >= 4
          /\ context[i - 3] \in WordChar
          /\ context[i - 2] \in WordChar)

\* The rule of the pattern: whitespace after a terminal mark, unless the
\* three characters before it are upper-case letter, lower-case letter,
\* period, or the four before it are word character, period, word character,
\* terminal mark
PatternSplitPoint(context, i) ==
    /\ context[i] \in Whitespace
    /\ i >= 2
    /\ context[i - 1] \in TerminalMarks
    /\ ~ (/\ context[i - 1] = "."
          /\ i >= 4
          /\ context[i - 3] \in UpperCase
          /\ context[i - 2] \in LowerCase)
    /\ ~ (/\ i >= 5
          /\ context[i - 4] \in WordChar
          /\ context[i - 3] = "."
          /\ context[i - 2] \in WordChar)

\* C16 as stated: the segmenter splits at each whitespace character right
\* after ".", "?" or "!", but not after the period of an initial (one
\* upper-case letter) and not where the three characters before the
\* whitespace are word character, word character, period.
C16_StatedSplitRule ==
    SegmenterReturned
        => call.outcome.value
             = Pieces(call.context,
                      {i \in 1..Len(call.context) :
                          StatedSplitPoint(call.context, i)})

\* C16: the segmenter splits at each whitespace character right after ".",
\* "?" or "!", but not where the three characters before the whitespace are
\* upper-case letter, lower-case letter, period, and not where the four
\* characters before it are word character, period, word character and the
\* terminal mark.
C16_PatternSplitRule ==
    SegmenterReturned
        => call.outcome.value
             = Pieces(call.context,
                      {i \in 1..Len(call.context) :
                          PatternSplitPoint(call.context, i)})

C16_TitleKeptInitialSplit ==
    /\ SegmenterReturned
    /\ call.context = MR_PASSAGE
    /\ call.outcome.value = <<<<"M","r","."," ","A",".">>, <<"b",".">>>>

\* Where sentence k starts in the passage if one character was dropped
\* after each sentence before it
RECURSIVE SentenceStart(_, _)
SentenceStart(sentences, k) ==
    IF k = 1 THEN 1
    ELSE SentenceStart(sentences, k - 1) + Len(sentences[k - 1]) + 1

\* The sentences are the stretches of the passage in order, one character
\* dropped between two neighbours and nothing else left out
CoversPassage(sentences, context) ==
    /\ Len(sentences) >= 1
    /\ \A k \in 1..Len(sentences) :
          /\ SentenceStart(sentences, k) + Len(sentences[k]) - 1 <= Len(context)
          /\ sentences[k] = SubSeq(context, SentenceStart(sentences, k),
                                   SentenceStart(sentences, k)
                                     + Len(sentences[k]) - 1)
    /\ SentenceStart(sentences, Len(sentences))
         + Len(sentences[Len(sentences)]) - 1 = Len(context)

\* C17 as stated: the sentences of a non-empty passage are non-empty
\* stretches of the passage that follow each other without overlap and leave
\* out only the one character consumed at each split.
C17_NonEmptySentencesCover ==
    (SegmenterReturned /\ call.context # <<>>)
        => /\ CoversPassage(call.outcome.value, call.context)
           /\ \A k \in 1..Len(call.outcome.value) :
                call.outcome.value[k] # <<>>

\* C17: the sentences of a non-empty passage are stretches of the passage
\* that follow each other without overlap and leave out only the one
\* character consumed at each split; only the last sentence can be empty,
\* and it is empty exactly when the passage ends with a split.
C17_SentencesCover ==
    (SegmenterReturned /\ call.context # <<>>)
        => LET sentences == call.outcome.value
           IN  /\ CoversPassage(sentences, call.context)
               /\ \A k \in 1..(Len(sentences) - 1) : sentences[k] # <<>>
               /\ sentences[Len(sentences)] = <<>>
                    <=> PatternSplitPoint(call.context, Len(call.context))

C17_ThreeSentences ==
    /\ SegmenterReturned
    /\ call.context = <<"."," ","b","?"," ">>
    /\ call.outcome.value = <<<<".">>, <<"b","?">>, <<>>>>

FailedCalls ==
    {i \in DOMAIN inference.calls : inference.calls[i].error # OK}

\* The exception of call i left its function and stopped the notebook
Reraised(i) ==
    /\ inference.cell = "stopped"
    /\ call.outcome = Raises(inference.calls[i].error, inference.calls[i].api)

ErrorLineTexts == {"Error downloading batch results:", "Unexpected error:"}

\* An error line for the exception of call i was printed
Logged(i) ==
    \E l \in DOMAIN stdout :
        /\ stdout[l].text \in ErrorLineTexts
        /\ stdout[l].about = inference.calls[i].error

\* No later call repeats call i
NotRetried(i) ==
    \A j \in DOMAIN inference.calls :
        j > i => ~ (/\ inference.calls[j].api = inference.calls[i].api
                    /\ inference.calls[j].target = inference.calls[i].target)

\* C18 as stated: every failed external call of the batch-inference notebook
\* is logged, re-raised to the caller and not retried.
C18_EveryFailureLoggedAndReraised ==
    inference.cell # "none"
        => \A i \in FailedCalls : Logged(i) /\ Reraised(i) /\ NotRetried(i)

\* C18: no failed external call of the batch-inference notebook is retried;
\* a ClientError of the bucket check is caught and followed by the creation
\* of the bucket; every other failure is the last call made and reaches the
\* caller, logged first exactly when it happened in download_batch_results.
C18_FailuresPropagateDownloadLogs ==
    inference.cell # "none"
        => \A i \in FailedCalls :
             /\ NotRetried(i)
             /\ IF /\ inference.calls[i].api = "head_bucket"
                   /\ inference.calls[i].error = "ClientError"
                THEN /\ i < Len(inference.calls)
                     /\ inference.calls[i + 1].api = "create_s3_bucket"
                ELSE /\ i = Len(inference.calls)
                     /\ Reraised(i)
                     /\ Logged(i)
                          <=> inference.calls[i].fn = "download_batch_results"

C18_BucketCreatedDownloadFailed ==
    /\ inference.cell = "stopped"
    /\ inference.calls[1].error = "ClientError"
    /\ inference.calls[Len(inference.calls)].api = "download_file"
    /\ inference.calls[Len(inference.calls)].error = "ClientError"
    /\ stdout[Len(stdout)]
         = Line("Error downloading batch results:", "ClientError")

C19_DOT_OUT ==
    <<".","o","u","t">>

C19_MANIFEST ==
    <<"m","a","n","i","f","e","s","t",".","j","s","o","n",".","o","u","t">>

DownloadReturned ==
    /\ inference.cell # "none"
    /\ call.fn = "download_batch_results"
    /\ call.outcome.kind = "return"

\* Every key listed under the output prefix of the job, page after page
RECURSIVE ListedKeys(_, _, _)
ListedKeys(pages, p, prefix) ==
    IF p > Len(pages) THEN <<>>
    ELSE page_keys(pages[p], prefix) \o ListedKeys(pages, p + 1, prefix)

EndsWith(s, suffix) ==
    /\ Len(s) >= Len(suffix)
    /\ \A k \in 1..Len(suffix) : s[Len(s) - Len(suffix) + k] = suffix[k]

IsOutFileNotManifest(key) ==
    EndsWith(key, C19_DOT_OUT) /\ ~ EndsWith(key, C19_MANIFEST)

\* C19 as stated: download_batch_results downloads the listed objects whose
\* key ends in .out and that are no manifest, all of them, no other, and
\* returns one local path for each in listing order, the name without .out.
C19_DownloadsEveryOutFile ==
    DownloadReturned
        => LET listed == ListedKeys(inference.pages, 1,
                                    s3_prefix(JobOf(call.job_id), call.job_id))
               wanted == SelectSeq(listed, IsOutFileNotManifest)
               fetched == SelectSeq(inference.calls,
                              LAMBDA made : /\ made.api = "download_file"
                                            /\ made.error = OK
                                            /\ made.target \in Range(listed))
               paths == call.outcome.value
           IN  /\ Len(fetched) = Len(wanted)
               /\ \A i \in 1..Len(wanted) : fetched[i].target = wanted[i]
               /\ Len(paths) = Len(wanted)
               /\ \A i \in 1..Len(paths) :
                     /\ ~ EndsWith(paths[i], C19_DOT_OUT)
                     /\ EndsWith(paths[i],
                            SubSeq(wanted[i], 1, Len(wanted[i]) - 4))
                          \/ EndsWith(paths[i],
                                 SubSeq(basename(wanted[i]), 1,
                                        Len(basename(wanted[i])) - 4))

Labels(frame) == {frame[k].index : k \in DOMAIN frame}

\* The conversation has the user turn and an assistant turn with the markup
\* of the row
HasGroundTruth(record) ==
    /\ record.conversation # None
    /\ Len(record.conversation.messages) = 2
    /\ record.conversation.messages[1].role = "user"
    /\ record.conversation.messages[2].role = "assistant"
    /\ record.conversation.messages[2].content[1].text
         = create_xml_answer(record.row, DEFAULT_NO_ANSWER_TEXT).value

OnlyUserTurn(record) ==
    /\ record.conversation # None
    /\ Len(record.conversation.messages) = 1
    /\ record.conversation.messages[1].role = "user"

\* C20: the rows with and the rows without ground truth share no row and
\* hold every row of the N training rows once; of the N records of the
\* distillation dataset floor(N / 10) have an assistant turn with the markup
\* of their row and the others have the user turn alone.
C20_TenPercentWithGroundTruth ==
    training.cell \in {"without", "concat", "write", "done"}
        => LET all == training.df_train_revised
               with_gt == training.training_data_with_gt_df
               without_gt == training.training_data_without_gt_df
               final == training.final_training_dataset
           IN  /\ Labels(with_gt) \cap Labels(without_gt) = {}
               /\ Len(with_gt) + Len(without_gt) = Len(all)
               /\ \A k \in DOMAIN all :
                     \E r \in Range(with_gt) \cup Range(without_gt) :
                         r.index = all[k].index /\ r.row = all[k].row
               /\ 10 * Len(with_gt) <= Len(all)
               /\ Len(all) < 10 * (Len(with_gt) + 1)
               /\ training.cell \in {"write", "done"}
                    => /\ Len(final) = Len(all)
                       /\ \A k \in DOMAIN final :
                             IF k <= Len(with_gt) THEN HasGroundTruth(final[k])
                             ELSE OnlyUserTurn(final[k])
                       /\ \A k \in DOMAIN all :
                             Cardinality({j \in DOMAIN final :
                                            final[j].row = all[k].row}) = 1

C20_TwoOfTwentyWithGroundTruth ==
    /\ training.cell = "done"
    /\ Len(training.df_train_revised) = 20
    /\ Cardinality({k \in DOMAIN training.final_training_dataset :
                      HasGroundTruth(training.final_training_dataset[k])}) = 2
    /\ Len(training.distillation_data) = 20
    /\ Len(training.distillation_data[2].messages) = 2
    /\ Len(training.distillation_data[3].messages) = 1

\* The positions of the passage the pattern matches
SplitPoints(context) ==
    {i \in 1..Len(context) : PatternSplitPoint(context, i)}

\* The offset in the passage at which its k-th sentence starts
TrueStart(context, k) ==
    IF k = 1 THEN 0 ELSE PointNo(SplitPoints(context), k - 1)

\* The offset after the k-th sentence and the character consumed behind it
TrueEnd(context, k) ==
    IF k = Cardinality(SplitPoints(context)) + 1 THEN Len(context) + 1
    ELSE PointNo(SplitPoints(context), k)

\* The text of the n-th source element of a markup string
SourceTextAt(markup, n) ==
    SubSeq(markup,
           Kth(Occurrences(markup, TAG_SOURCE), n) + Len(TAG_SOURCE),
           Kth(Occurrences(markup, TAG_SOURCE_END), n) - 1)

\* C21: the counter of the span locator before a sentence is the offset at
\* which the sentence starts in the passage, also behind several spaces or
\* newlines, so an offset from 0 to the length of the passage lies in the
\* range of the sentence it points into, that sentence (stripped) becomes
\* the source and the sentinel is not returned.
C21_CounterIsTrueOffset ==
    (XmlReturned /\ WellFormedRow(call.row))
        => LET context == call.row["context"]
               sentences == Pieces(context, SplitPoints(context))
               offsets == OccurrenceOffsets(call.row)
               Holding(o) == {k \in 1..Len(sentences) :
                                /\ TrueStart(context, k) <= o
                                /\ o < TrueEnd(context, k)}
           IN  /\ \A k \in 1..Len(sentences) :
                     RangeStart(SentencesOf(call.row), k) = TrueStart(context, k)
               /\ \A n \in 1..Len(offsets) :
                     (0 <= offsets[n].v /\ offsets[n].v <= Len(context))
                        => /\ Cardinality(Holding(offsets[n].v)) = 1
                           /\ \A k \in Holding(offsets[n].v) :
                                /\ InRange(SentencesOf(call.row), k,
                                           offsets[n].v)
                                /\ SourceTextAt(call.outcome.value, n)
                                     = strip(sentences[k])
                           /\ SourceTextAt(call.outcome.value, n) # C9_SENTINEL

C21_OffsetAtTheEndBehindTwoSpaces ==
    /\ XmlReturned
    /\ SingleOccurrence(call.row)
    /\ call.row["context"] = <<".", " ", " ", "b">>
    /\ OffsetOf(call.row) = 4
    /\ TrueStart(call.row["context"], 2) = 2
    /\ SourceTextAt(call.outcome.value, 1) = <<"b">>

\* C22: create_xml_answer never returns an empty string; a conversation or
\* invoke payload asked for with include_answer on a row with passage and
\* question is built with an assistant turn behind the user turn, and that
\* turn holds the error markup when the markup of the row could not be
\* built (extra fields, if any, a mapping that leaves the messages alone).
C22_AssistantTurnAlwaysAppended ==
    /\ XmlReturned
         => call.outcome.kind = "return" /\ call.outcome.value # <<>>
    /\ (/\ PayloadReturned
        /\ call.model_type \in SupportedModelTypes
        /\ call.include_answer
        /\ {"context", "question"} \subseteq DOMAIN call.row
        /\ call.additional_params.t \in {"None", "dict"}
        /\ ~ (/\ call.model_type = INVOKE
              /\ "messages" \in DOMAIN ExtraFields))
         => /\ call.outcome.kind = "return"
            /\ call.outcome.value # None
            /\ LET messages == call.outcome.value.messages
                   failure == xml_answer_try(call.row, DEFAULT_NO_ANSWER_TEXT)
               IN  /\ Len(messages) = 2
                   /\ messages[1].role = "user"
                   /\ messages[2].role = "assistant"
                   /\ Len(messages[2].content) = 1
                   /\ messages[2].content[1].text # <<>>
                   /\ failure.kind = "raise"
                        => /\ messages[2].content[1].text
                                = ErrorMarkup(failure.msg)
                           /\ Occurrences(messages[2].content[1].text,
                                          C14_ERROR_OPEN) # {}

C22_ErrorMarkupInAssistantTurn ==
    /\ PayloadReturned
    /\ call.model_type = CONVERSATION
    /\ call.include_answer
    /\ {"context", "question"} \subseteq DOMAIN call.row
    /\ "answers" \notin DOMAIN call.row
    /\ call.additional_params = None
    /\ call.outcome.value # None
    /\ Len(call.outcome.value.messages) = 2
    /\ Occurrences(call.outcome.value.messages[2].content[1].text,
                   C14_ERROR_OPEN) = {10}

\* The calls that submitted a job, in the order they were made
Submissions ==
    SelectSeq(inference.calls,
              LAMBDA made : made.api = "create_model_invocation_job")

IsPrefix(shorter, longer) ==
    /\ Len(shorter) <= Len(longer)
    /\ \A i \in 1..Len(shorter) : shorter[i] = longer[i]

\* In every state: submission i was for models[i], only the last one can
\* have failed, job_ids[i] is the handle the service gave for models[i], a
\* failed submission stopped the notebook, and past the loop every model has
\* its job
SubmittedInOrder ==
    inference.cell # "none"
        => /\ Len(Submissions) <= Len(models)
           /\ \A i \in 1..Len(Submissions) :
                 /\ Submissions[i].target = models[i]
                 /\ i < Len(Submissions) => Submissions[i].error = OK
           /\ Len(inference.job_ids)
                = Cardinality({i \in 1..Len(Submissions) :
                                  Submissions[i].error = OK})
           /\ \A i \in 1..Len(inference.job_ids) :
                 /\ inference.jobs[i].jobArn = inference.job_ids[i]
                 /\ IsPrefix(models[i],
                             split_last(inference.jobs[i].modelId, "/"))
                 /\ Len(models[i])
                      = Len(split_last(inference.jobs[i].modelId, "/"))
                 /\ \A j \in 1..Len(inference.job_ids) :
                       inference.job_ids[j] = inference.job_ids[i] => j = i
           /\ (Submissions # <<>>
               /\ Submissions[Len(Submissions)].error # OK)
                 => /\ inference.cell = "stopped"
                    /\ inference.calls[Len(inference.calls)]
                         = Submissions[Len(Submissions)]
                    /\ Len(inference.job_ids) = Len(Submissions) - 1
           /\ inference.cell \in {"status", "download", "end"}
                 => Len(inference.job_ids) = Len(models)

\* In every step: job_ids stays as it is or gains, at its end, the handle
\* that the one submission of the step returned
SubmittedOneAtATime ==
    (inference.cell # "none" /\ inference'.job_ids # inference.job_ids)
        => /\ inference'.job_ids
                = Append(inference.job_ids, call'.outcome.value)
           /\ Len(inference'.calls) = Len(inference.calls) + 1
           /\ inference'.calls[Len(inference'.calls)].target
                = models[Len(inference'.job_ids)]

\* C23: the jobs are submitted one at a time in the order of models, each
\* model at most once; job_ids[i] is always the handle returned for
\* models[i]; when a submission fails the loop stops with the handles of the
\* models before it and submits no later model.
C23_JobsSubmittedInModelOrder ==
    [] SubmittedInOrder /\ [][SubmittedOneAtATime]_vars

C23_SecondSubmissionFailed ==
    /\ inference.cell = "stopped"
    /\ Len(Submissions) = 2
    /\ Submissions[2].target = MODEL_LITE
    /\ Submissions[2].error = "ClientError"
    /\ Len(inference.job_ids) = 1
    /\ inference.jobs[1].jobArn = inference.job_ids[1]

====
